---- MODULE Spec2Model ----
(***************************************************************************)
(* Model of the conversational command-resolution engine of Flowly:        *)
(* backend/src/modules/ai-chat/ai-chat.service.ts (class AiChatService).   *)
(*                                                                         *)
(* Strings of the program are TLA+ strings; JavaScript values that come    *)
(* out of JSON.parse are records [kind, text] where text is what           *)
(* String(value) yields, so truthiness and trimming are computed the way   *)
(* the code computes them.                                                 *)
(***************************************************************************)
EXTENDS Integers, Sequences, FiniteSets, TLC

VARIABLES
    conversationContexts, \* Map<string, context>: session key -> reference
    heap,                 \* the context objects the references point to
    now,                  \* Date.now(), in milliseconds
    turn,                 \* the chat() calls in flight, one record per slot
    started,              \* number of chat() calls started so far
    conn,                 \* the testConnection() call
    probe                 \* input and result of a pure function under test

vars == <<conversationContexts, heap, now, turn, started, conn, probe>>

(***************************************************************************)
(* String helpers (the methods of String.prototype the code uses)          *)
(***************************************************************************)
CharAt(s, i) == SubSeq(s, i, i)

StartsWith(s, p) == Len(s) >= Len(p) /\ SubSeq(s, 1, Len(p)) = p

EndsWith(s, p) == Len(s) >= Len(p) /\ SubSeq(s, Len(s) - Len(p) + 1, Len(s)) = p

Includes(s, p) ==
    \E i \in 1..(Len(s) - Len(p) + 1) : SubSeq(s, i, i + Len(p) - 1) = p

WhiteSpace == {" ", "\t", "\n", "\r"}

MinOf(S) == CHOOSE j \in S : \A k \in S : j <= k
MaxOf(S) == CHOOSE j \in S : \A k \in S : j >= k

\* the positions of s that hold no white space
Inked(s) == {j \in 1..Len(s) : CharAt(s, j) \notin WhiteSpace}

TrimStart(s) == IF Inked(s) = {} THEN "" ELSE SubSeq(s, MinOf(Inked(s)), Len(s))

TrimEnd(s) == IF Inked(s) = {} THEN "" ELSE SubSeq(s, 1, MaxOf(Inked(s)))

Trim(s) == TrimEnd(TrimStart(s))

RECURSIVE Join(_, _)
Join(seq, sep) ==
    IF Len(seq) = 0 THEN ""
    ELSE IF Len(seq) = 1 THEN seq[1]
    ELSE seq[1] \o sep \o Join(Tail(seq), sep)

Range(seq) == {seq[i] : i \in DOMAIN seq}

(***************************************************************************)
(* JavaScript values as they come out of JSON.parse                        *)
(***************************************************************************)
Undefined == [kind |-> "undefined", text |-> "undefined"]
JNull     == [kind |-> "null", text |-> "null"]
JStr(s)   == [kind |-> "string", text |-> s]
JNum(t)   == [kind |-> "number", text |-> t]
JBool(t)  == [kind |-> "boolean", text |-> t]
JArray(t) == [kind |-> "array", text |-> t]      \* String([]) = "", String(["a"]) = "a"
JObject   == [kind |-> "object", text |-> "[object Object]"]

\* ToBoolean(v): what `!v` negates
Truthy(v) ==
    CASE v.kind = "undefined" -> FALSE
      [] v.kind = "null"      -> FALSE
      [] v.kind = "string"    -> v.text # ""
      [] v.kind = "number"    -> v.text \notin {"0", "NaN"}
      [] v.kind = "boolean"   -> v.text = "true"
      [] OTHER                -> TRUE

\* String(v)
JsString(v) == v.text

\* parameters[key] on a parsed JSON object
Get(obj, key) == IF key \in DOMAIN obj THEN obj[key] ELSE Undefined

\* obj[key] = value
Put(obj, key, value) ==
    [k \in DOMAIN obj \cup {key} |-> IF k = key THEN value ELSE obj[k]]

(***************************************************************************)
(* The command grammar (constants/commands.json, imported on line 10).     *)
(* The file is not among the sources; the entries are the commands the     *)
(* system prompt of generateSystemPrompt names with their parameters       *)
(* (lines 137-178, 200-204); a trailing "?" marks an optional parameter.   *)
(***************************************************************************)
commandsData ==
    [commands |-> <<
        [name |-> "listWorkspaces",      params |-> <<>>],
        [name |-> "createWorkspace",     params |-> <<"name", "description">>],
        [name |-> "navigateToWorkspace", params |-> <<"workspaceSlug">>],
        [name |-> "editWorkspace",       params |-> <<"workspaceSlug", "updates">>],
        [name |-> "listProjects",        params |-> <<"workspaceSlug">>],
        [name |-> "createProject",       params |-> <<"workspaceSlug", "name", "description?">>],
        [name |-> "navigateToProject",   params |-> <<"workspaceSlug", "projectSlug">>],
        [name |-> "createTask",          params |-> <<"workspaceSlug", "projectSlug", "taskTitle">>]
    >>]

CommandNames == {commandsData.commands[i].name : i \in DOMAIN commandsData.commands}

\* this.commands.commands.find((cmd) => cmd.name === commandName)
FindCommand(commandName) ==
    LET hits == SelectSeq(commandsData.commands, LAMBDA c : c.name = commandName)
    IN  IF Len(hits) = 0 THEN [name |-> "", params |-> <<>>, found |-> FALSE]
        ELSE [name |-> hits[1].name, params |-> hits[1].params, found |-> TRUE]

\* command.params.filter((p) => !p.endsWith('?'))
RequiredParams(command) == SelectSeq(command.params, LAMBDA p : ~EndsWith(p, "?"))

\* !parameters[param] || String(parameters[param]).toString().trim() === ''
IsMissing(parameters, param) ==
    \/ ~Truthy(Get(parameters, param))
    \/ Trim(JsString(Get(parameters, param))) = ""

\* a validation that lets every command through
ValidateAnyCommand(commandName, parameters) ==
    [valid |-> TRUE, missing |-> <<>>, message |-> ""]

\* lines 270-297
validateCommandParameters(commandName, parameters) ==
    LET command == FindCommand(commandName)
        requiredParams == RequiredParams(command)
        missing == SelectSeq(requiredParams, LAMBDA p : IsMissing(parameters, p))
    IN  IF ~command.found
        THEN [valid |-> FALSE, missing |-> <<>>,
              message |-> "Unknown command: " \o commandName]
        ELSE IF Len(missing) > 0
        THEN [valid |-> FALSE, missing |-> missing,
              message |-> "Missing required parameters for " \o commandName
                          \o ": " \o Join(missing, ", ")]
        ELSE [valid |-> TRUE, missing |-> <<>>, message |-> ""]

(***************************************************************************)
(* new URL(apiUrl): the parts of the WHATWG parser the endpoints exercise  *)
(* (scheme, userinfo, host, port, default-port elision, lower-casing).     *)
(***************************************************************************)
UpperCase == "ABCDEFGHIJKLMNOPQRSTUVWXYZ"
LowerCase == "abcdefghijklmnopqrstuvwxyz"
Digits    == "0123456789"

\* first index of the one-character string c in s, 0 when absent
IndexFrom(s, c, i) ==
    LET hits == {j \in i..Len(s) : CharAt(s, j) = c}
    IN  IF hits = {} THEN 0 ELSE MinOf(hits)

IndexOf(s, c) == IndexFrom(s, c, 1)

LastIndexFrom(s, c, i) ==
    LET hits == {j \in 1..i : CharAt(s, j) = c}
    IN  IF hits = {} THEN 0 ELSE MaxOf(hits)

LastIndexOf(s, c) == LastIndexFrom(s, c, Len(s))

IsIn(c, alphabet) == \E j \in 1..Len(alphabet) : CharAt(alphabet, j) = c

LowerChar(c) ==
    IF IsIn(c, UpperCase) THEN CharAt(LowerCase, IndexOf(UpperCase, c)) ELSE c

\* String.prototype.toLowerCase
RECURSIVE ToLowerCase(_)
ToLowerCase(s) ==
    IF Len(s) = 0 THEN ""
    ELSE IF Len(s) = 1 THEN LowerChar(CharAt(s, 1))
    ELSE ToLowerCase(SubSeq(s, 1, Len(s) \div 2))
         \o ToLowerCase(SubSeq(s, Len(s) \div 2 + 1, Len(s)))

AllIn(s, alphabet) == \A i \in 1..Len(s) : IsIn(CharAt(s, i), alphabet)

\* s.split(c) for a one-character separator
RECURSIVE Split(_, _)
Split(s, c) ==
    LET i == IndexOf(s, c)
    IN  IF i = 0 THEN <<s>>
        ELSE <<SubSeq(s, 1, i - 1)>> \o Split(SubSeq(s, i + 1, Len(s)), c)

\* length of the longest prefix of s made of characters of alphabet
SpanOf(s, alphabet) ==
    LET stops == {j \in 1..Len(s) : ~IsIn(CharAt(s, j), alphabet)}
    IN  IF stops = {} THEN Len(s) ELSE MinOf(stops) - 1

\* length of the longest prefix of s holding no character of stops
SpanUntil(s, stops) ==
    LET hits == {j \in 1..Len(s) : IsIn(CharAt(s, j), stops)}
    IN  IF hits = {} THEN Len(s) ELSE MinOf(hits) - 1

StripLeadingZeros(s) ==
    LET others == {j \in 1..Len(s) : CharAt(s, j) # "0"}
    IN  IF Len(s) = 0 THEN s
        ELSE IF others = {} THEN "0"
        ELSE SubSeq(s, MinOf(others), Len(s))

SpecialSchemes == {"http", "https", "ftp", "ws", "wss"}

DefaultPort(scheme) ==
    CASE scheme \in {"https", "wss"} -> "443"
      [] scheme \in {"http", "ws"}   -> "80"
      [] scheme = "ftp"              -> "21"
      [] OTHER                       -> ""

ForbiddenHostChars == " #%/:<>?@[\\]^|"

InvalidUrl == [ok |-> FALSE, protocol |-> "", hostname |-> "", port |-> "", href |-> ""]

\* a host the parser accepts: an IPv6 literal in brackets or a domain without
\* forbidden code points
HostOk(host) ==
    IF StartsWith(host, "[")
    THEN /\ IndexOf(host, "]") = Len(host)
         /\ Len(host) > 2
         /\ AllIn(SubSeq(host, 2, Len(host) - 1), Digits \o "abcdef:.")
    ELSE /\ Len(host) > 0
         /\ \A i \in 1..Len(host) : ~IsIn(CharAt(host, i), ForbiddenHostChars)

PortOk(rawPort) == AllIn(rawPort, Digits) /\ Len(StripLeadingZeros(rawPort)) <= 5

\* url.port: the number without leading zeros, empty when it is the scheme's default
NormalPort(scheme, rawPort) ==
    IF rawPort = "" THEN ""
    ELSE IF StripLeadingZeros(rawPort) = DefaultPort(scheme) THEN ""
    ELSE StripLeadingZeros(rawPort)

PathOf(tail) == IF tail = "" \/ IsIn(CharAt(tail, 1), "?#") THEN "/" \o tail ELSE tail

UrlOf(scheme, userinfo, host, port, path) ==
    [ok |-> TRUE, protocol |-> scheme \o ":", hostname |-> host, port |-> port,
     href |-> scheme \o "://" \o userinfo \o host
              \o (IF port = "" THEN "" ELSE ":" \o port) \o path]

\* new URL(input), without a base URL; ok = FALSE is the TypeError it throws
ParseUrl(input) ==
    LET Parts(scheme, userinfo, host, rawPort, tail) ==
            IF ~HostOk(host) \/ ~PortOk(rawPort) THEN InvalidUrl
            ELSE UrlOf(scheme, userinfo, host, NormalPort(scheme, rawPort), PathOf(tail))
        HostPort(scheme, userinfo, hostport, tail) ==
            LET bracket   == IF StartsWith(hostport, "[") THEN IndexOf(hostport, "]")
                             ELSE 0
                lastColon == LastIndexOf(hostport, ":")
                hasPort   == lastColon > bracket
            IN  Parts(scheme, userinfo,
                      ToLowerCase(IF hasPort THEN SubSeq(hostport, 1, lastColon - 1)
                                  ELSE hostport),
                      IF hasPort THEN SubSeq(hostport, lastColon + 1, Len(hostport))
                      ELSE "",
                      tail)
        Authority(scheme, authority, tail) ==
            LET at == LastIndexOf(authority, "@")
            IN  HostPort(scheme, SubSeq(authority, 1, at),          \* with its "@"
                         SubSeq(authority, at + 1, Len(authority)), tail)
        Special(scheme, afterSlashes) ==
            LET authLen == SpanUntil(afterSlashes, "/\\?#")
            IN  Authority(scheme, SubSeq(afterSlashes, 1, authLen),
                          SubSeq(afterSlashes, authLen + 1, Len(afterSlashes)))
        Scheme(scheme, rest) ==
            IF \/ ~IsIn(CharAt(scheme, 1), LowerCase)
               \/ ~AllIn(scheme, LowerCase \o Digits \o "+-.")
            THEN InvalidUrl
            ELSE IF scheme \notin SpecialSchemes
            THEN \* an opaque path: no host, no port
                 [ok |-> TRUE, protocol |-> scheme \o ":", hostname |-> "",
                  port |-> "", href |-> scheme \o ":" \o rest]
            ELSE Special(scheme, SubSeq(rest, SpanOf(rest, "/\\") + 1, Len(rest)))
        Colon(colon) ==
            IF colon < 2 THEN InvalidUrl
            ELSE Scheme(ToLowerCase(SubSeq(input, 1, colon - 1)),
                        SubSeq(input, colon + 1, Len(input)))
    IN  Colon(IndexOf(input, ":"))

(***************************************************************************)
(* The endpoint guard and the provider adapter's classification            *)
(***************************************************************************)
allowedHosts ==
    <<"openrouter.ai", "api.openrouter.ai", "api.openai.com", "api.anthropic.com",
      "generativelanguage.googleapis.com", "aiplatform.googleapis.com">>

\* [a-z0-9-]+
IsHostLabel(s) == Len(s) > 0 /\ AllIn(s, LowerCase \o Digits \o "-")

BedrockServices ==
    {"bedrock", "bedrock-runtime", "bedrock-agent", "bedrock-agent-runtime",
     "bedrock-data-automation", "bedrock-data-automation-runtime"}

\* /^(bedrock|...)(-fips)?\.([a-z0-9-]+)\.amazonaws\.com$/
awsBedrockPattern(hostname) ==
    LET l == Split(hostname, ".")
    IN  /\ Len(l) = 4
        /\ \/ l[1] \in BedrockServices
           \/ /\ EndsWith(l[1], "-fips")
              /\ SubSeq(l[1], 1, Len(l[1]) - 5) \in BedrockServices
        /\ IsHostLabel(l[2])
        /\ l[3] = "amazonaws"
        /\ l[4] = "com"

\* /^[a-z0-9-]+\.openai\.azure\.com$/
azurePattern(hostname) ==
    LET l == Split(hostname, ".")
    IN  Len(l) = 4 /\ IsHostLabel(l[1]) /\ l[2] = "openai" /\ l[3] = "azure" /\ l[4] = "com"

\* /^([a-z0-9-]+\.)?aiplatform\.googleapis\.com$|^[a-z0-9-]+\.p\.googleapis\.com$/
googlePattern(hostname) ==
    LET l == Split(hostname, ".")
    IN  \/ l = <<"aiplatform", "googleapis", "com">>
        \/ /\ Len(l) = 4
           /\ IsHostLabel(l[1])
           /\ l[2] \in {"aiplatform", "p"}
           /\ l[3] = "googleapis"
           /\ l[4] = "com"

\* the condition of lines 907-912, negated: the host is allowed
HostAllowed(hostname) ==
    \/ hostname \in Range(allowedHosts)
    \/ awsBedrockPattern(hostname)
    \/ azurePattern(hostname)
    \/ googlePattern(hostname)

\* /^172\.(1[6-9]|2[0-9]|3[0-1])\./
Is172Private(hostname) ==
    /\ Len(hostname) >= 7
    /\ SubSeq(hostname, 1, 4) = "172."
    /\ SubSeq(hostname, 5, 6) \in
          {"16", "17", "18", "19", "20", "21", "22", "23",
           "24", "25", "26", "27", "28", "29", "30", "31"}
    /\ CharAt(hostname, 7) = "."

\* the condition of lines 917-929: loopback, private range or link-local
IsInternalHost(hostname) ==
    \/ hostname \in {"localhost", "127.0.0.1", "::1", "0.0.0.0"}
    \/ StartsWith(hostname, "192.168.")
    \/ StartsWith(hostname, "10.")
    \/ StartsWith(hostname, "127.")
    \/ StartsWith(hostname, "169.254.")
    \/ Is172Private(hostname)
    \/ /\ Len(hostname) >= 2                       \* /^[fF][cCdD]/
       /\ CharAt(hostname, 1) \in {"f", "F"}
       /\ CharAt(hostname, 2) \in {"c", "C", "d", "D"}
    \/ /\ Len(hostname) >= 3                       \* /^[fF][eE][89aAbB]/
       /\ CharAt(hostname, 1) \in {"f", "F"}
       /\ CharAt(hostname, 2) \in {"e", "E"}
       /\ CharAt(hostname, 3) \in {"8", "9", "a", "A", "b", "B"}

\* url.hostname.toLowerCase().replace(/^\[|\]$/g, '')
StripBrackets(h) ==
    LET a == IF StartsWith(h, "[") THEN SubSeq(h, 2, Len(h)) ELSE h
    IN  IF EndsWith(a, "]") THEN SubSeq(a, 1, Len(a) - 1) ELSE a

\* the last check, lines 941-948
IsSupportedProviderHost(hostname) ==
    \/ hostname = "api.openai.com"
    \/ hostname = "openrouter.ai" \/ hostname = "api.openrouter.ai"
    \/ hostname = "api.anthropic.com"
    \/ googlePattern(hostname)

Rejected(reason) == [ok |-> FALSE, url |-> "", error |-> reason]

\* url.toString().replace(/\/$/, '')
StripTrailingSlash(s) == IF EndsWith(s, "/") THEN SubSeq(s, 1, Len(s) - 1) ELSE s

\* the scheme check left out
IsHttpsSkipped(url) == TRUE

\* url.protocol !== 'https:', negated
IsHttps(url) == url.protocol = "https:"

validateApiUrl(apiUrl) ==
    LET Guard(url, hostname) ==
            IF ~IsHttps(url) THEN Rejected("Only HTTPS URLs allowed")
            ELSE IF ~HostAllowed(hostname) THEN Rejected("Host not allowed")
            ELSE IF IsInternalHost(hostname) THEN Rejected("Internal IPs not allowed")
            ELSE IF (IF url.port # "" THEN url.port ELSE "443") # "443"
                 THEN Rejected("Only standard HTTPS port 443 is allowed")
            ELSE IF ~IsSupportedProviderHost(hostname)
                 THEN Rejected("Unsupported AI provider host")
            ELSE [ok |-> TRUE, url |-> StripTrailingSlash(url.href), error |-> ""]
        Parsed(url) ==
            IF ~url.ok THEN Rejected("Invalid URL format")
            ELSE Guard(url, StripBrackets(ToLowerCase(url.hostname)))
    IN  Parsed(ParseUrl(apiUrl))

detectProvider(apiUrl) ==
    LET Provider(parsedUrl, hostname) ==
            IF ~parsedUrl.ok THEN "custom"
            ELSE IF hostname = "openrouter.ai" \/ EndsWith(hostname, ".openrouter.ai")
                 THEN "openrouter"
            ELSE IF hostname = "api.openai.com" \/ EndsWith(hostname, ".api.openai.com")
                 THEN "openai"
            ELSE IF \/ hostname = "api.anthropic.com"
                    \/ EndsWith(hostname, ".api.anthropic.com")
                 THEN "anthropic"
            ELSE IF \/ hostname = "generativelanguage.googleapis.com"
                    \/ EndsWith(hostname, ".generativelanguage.googleapis.com")
                 THEN "google"
            ELSE "custom"
        Parsed(parsedUrl) == Provider(parsedUrl, parsedUrl.hostname)
    IN  Parsed(ParseUrl(apiUrl))

(***************************************************************************)
(* Regular expressions (RegExp with the flags g and i, and m for "$"):     *)
(* a backtracking matcher.  Match yields the ways a node can match at a    *)
(* position, in the order the engine tries them, so the first way that     *)
(* lets the rest of the pattern match is the one JavaScript reports.       *)
(* A way is <<end, <<captureStart, captureEnd>>>>, for the one capturing    *)
(* group the context patterns have.                                        *)
(***************************************************************************)
Lit(str)       == [t |-> "lit", s |-> str]
Cls(chars)     == [t |-> "cls", chars |-> chars, neg |-> FALSE]
NotCls(chars)  == [t |-> "cls", chars |-> chars, neg |-> TRUE]
Cat(items)     == [t |-> "cat", items |-> items]
Alt(items)     == [t |-> "alt", items |-> items]
Star(body)     == [t |-> "star", body |-> body, lazy |-> FALSE, min |-> 0]
StarLazy(body) == [t |-> "star", body |-> body, lazy |-> TRUE, min |-> 0]
Plus(body)     == [t |-> "star", body |-> body, lazy |-> FALSE, min |-> 1]
PlusLazy(body) == [t |-> "star", body |-> body, lazy |-> TRUE, min |-> 1]
Opt(body)      == Alt(<<body, Cat(<<>>)>>)
Cap(body)      == [t |-> "cap", body |-> body]
Eol            == [t |-> "eol"]
Ws             == Cls(" \t\n\r")                       \* \s
Letters        == LowerCase \o UpperCase

\* whether the character class n has the character ch (flag i)
ClassHas(n, ch) == (IsIn(ch, n.chars) \/ IsIn(LowerChar(ch), n.chars)) # n.neg

\* the position after the run of characters of class n that starts at i
ClassRunEnd(n, s, i) ==
    LET stops == {j \in i..Len(s) : ~ClassHas(n, CharAt(s, j))}
    IN  IF stops = {} THEN Len(s) + 1 ELSE MinOf(stops)

RECURSIVE Match(_, _, _, _), MatchCat(_, _, _, _, _), MatchAlt(_, _, _, _, _),
          MatchEach(_, _, _, _, _), MatchStar(_, _, _, _)

\* the ways node n matches s at position i, capture group so far c
Match(n, s, i, c) ==
    CASE n.t = "lit" ->
            IF /\ i + Len(n.s) - 1 <= Len(s)
               /\ ToLowerCase(SubSeq(s, i, i + Len(n.s) - 1)) = ToLowerCase(n.s)
            THEN << <<i + Len(n.s), c>> >> ELSE <<>>
      [] n.t = "cls" ->
            IF i <= Len(s) /\ ClassHas(n, CharAt(s, i))
            THEN << <<i + 1, c>> >> ELSE <<>>
      [] n.t = "eol" ->
            IF i = Len(s) + 1 \/ (i <= Len(s) /\ CharAt(s, i) = "\n")
            THEN << <<i, c>> >> ELSE <<>>
      [] n.t = "cat"  -> MatchCat(n.items, 1, s, i, c)
      [] n.t = "alt"  -> MatchAlt(n.items, 1, s, i, c)
      [] n.t = "cap"  ->
            LET Captured(ways) == [k \in DOMAIN ways |-> <<ways[k][1], <<i, ways[k][1]>>>>]
            IN  Captured(Match(n.body, s, i, c))
      [] n.t = "star" -> MatchStar(n, s, i, c)

\* items[k..] in sequence
MatchCat(items, k, s, i, c) ==
    IF k > Len(items) THEN << <<i, c>> >>
    ELSE LET After(ways) ==
                 MatchEach(ways, 1, Len(ways), s,
                           [t |-> "cat", items |-> items, k |-> k + 1])
         IN  After(Match(items[k], s, i, c))

\* items[k..] as alternatives, leftmost first
MatchAlt(items, k, s, i, c) ==
    IF k > Len(items) THEN <<>>
    ELSE Match(items[k], s, i, c) \o MatchAlt(items, k + 1, s, i, c)

\* for each way of ways[lo..hi], in order, the ways the continuation matches after it
MatchEach(ways, lo, hi, s, cont) ==
    IF lo > hi THEN <<>>
    ELSE IF lo = hi
    THEN IF cont.t = "cat"
         THEN MatchCat(cont.items, cont.k, s, ways[lo][1], ways[lo][2])
         ELSE IF ways[lo][1] > cont.from
              THEN MatchStar(cont.node, s, ways[lo][1], ways[lo][2])
              ELSE <<>>
    ELSE MatchEach(ways, lo, (lo + hi) \div 2, s, cont)
         \o MatchEach(ways, (lo + hi) \div 2 + 1, hi, s, cont)

\* body* and body+ (min = 1), greedy (one more first) or lazy (stop first); on a
\* character class they match every prefix of the run of the class that has at
\* least min characters, longest or shortest first
MatchStar(n, s, i, c) ==
    LET Ordered(more, stop) == IF n.lazy THEN stop \o more ELSE more \o stop
        Repeated(ways) ==
            MatchEach(ways, 1, Len(ways), s,
                      [t |-> "star", node |-> [n EXCEPT !.min = 0], from |-> i])
        Prefixes(end) ==
            [k \in 1..(end - i + 1 - n.min) |->
                <<IF n.lazy THEN i + k - 1 + n.min ELSE end + 1 - k, c>>]
    IN  IF n.body.t = "cls" THEN Prefixes(ClassRunEnd(n.body, s, i))
        ELSE IF n.min = 1 THEN Repeated(Match(n.body, s, i, c))
        ELSE Ordered(Repeated(Match(n.body, s, i, c)), << <<i, c>> >>)

NoMatch == [found |-> FALSE, start |-> 0, end |-> 0, group |-> ""]

\* RegExp.prototype.exec with lastIndex = from: the leftmost match at or after from
ExecFrom(re, s, from) ==
    LET starts == {f \in from..(Len(s) + 1) : Len(Match(re, s, f, <<0, 0>>)) > 0}
        First(f, ways) ==
            [found |-> TRUE, start |-> f, end |-> ways[1][1],
             group |-> IF ways[1][2][1] = 0 THEN ""
                       ELSE SubSeq(s, ways[1][2][1], ways[1][2][2] - 1)]
        At(f) == First(f, Match(re, s, f, <<0, 0>>))
    IN  IF starts = {} THEN NoMatch ELSE At(MinOf(starts))

\* [...s.matchAll(re)]: the successive matches, as records
RECURSIVE MatchAllFrom(_, _, _)
MatchAllFrom(re, s, from) ==
    LET AndOn(m) ==
            IF ~m.found THEN <<>>
            ELSE <<m>> \o MatchAllFrom(re, s, IF m.end = m.start THEN m.end + 1
                                              ELSE m.end)
    IN  AndOn(ExecFrom(re, s, from))

MatchAll(re, s) == MatchAllFrom(re, s, 1)

(***************************************************************************)
(* Session context: the value type of the conversationContexts map         *)
(***************************************************************************)
NoProjects == [defined |-> FALSE, list |-> <<>>]

\* { lastUpdated: new Date() }
NewContext(time) ==
    [workspaceSlug |-> Undefined, workspaceName |-> Undefined,
     projectSlug |-> Undefined, projectName |-> Undefined,
     lastUpdated |-> time, currentWorkSpaceProjectSlug |-> NoProjects]

\* str.toLowerCase().replace(/\s+/g, '-').replace(/[^a-z0-9-]/g, '')
\* what replace(/\s+/g, '-') leaves of str[lo..hi]: a dash for the first white
\* space of a run, nothing for the others, every other character as it is
RECURSIVE DashRange(_, _, _)
DashRange(str, lo, hi) ==
    IF lo > hi THEN ""
    ELSE IF lo = hi
    THEN IF CharAt(str, lo) \notin WhiteSpace THEN CharAt(str, lo)
         ELSE IF lo > 1 /\ CharAt(str, lo - 1) \in WhiteSpace THEN ""
         ELSE "-"
    ELSE DashRange(str, lo, (lo + hi) \div 2) \o DashRange(str, (lo + hi) \div 2 + 1, hi)

DashSpaces(str) == DashRange(str, 1, Len(str))

\* what replace(/[^alphabet]/g, '') leaves of str
RECURSIVE KeepOnly(_, _)
KeepOnly(str, alphabet) ==
    IF Len(str) = 0 THEN ""
    ELSE IF Len(str) = 1 THEN (IF IsIn(str, alphabet) THEN str ELSE "")
    ELSE KeepOnly(SubSeq(str, 1, Len(str) \div 2), alphabet)
         \o KeepOnly(SubSeq(str, Len(str) \div 2 + 1, Len(str)), alphabet)

slugify(str) == KeepOnly(DashSpaces(ToLowerCase(str)), LowerCase \o Digits \o "-")

(***************************************************************************)
(* extractContextFromMessage: context heuristics on the user's message     *)
(***************************************************************************)
MAX_MESSAGE_LENGTH == 10000

Quote    == Cls("\"'")
NoQuote  == NotCls("\"'")
NamePart == NotCls("\"'.,!?\n")            \* [^"'.,!?\n]
Ws1      == Plus(Ws)                       \* \s+
GoVerbs  == Alt(<<Cat(<<Lit("go"), Ws1, Lit("with")>>), Lit("use"), Lit("with"),
                  Cat(<<Lit("navigate"), Ws1, Lit("to")>>),
                  Cat(<<Lit("go"), Ws1, Lit("to")>>)>>)
ToVerbs  == Alt(<<Cat(<<Lit("take"), Ws1, Lit("me"), Ws1, Lit("to")>>),
                  Cat(<<Lit("navigate"), Ws1, Lit("to")>>),
                  Cat(<<Lit("go"), Ws1, Lit("to")>>)>>)

workspacePatterns == <<
    \* /(?:go\s+with|use|with|navigate\s+to|go\s+to)\s+workspace\s+["']([^"']+)["']?/gi
    Cat(<<GoVerbs, Ws1, Lit("workspace"), Ws1, Quote, Cap(Plus(NoQuote)), Opt(Quote)>>),
    \* /workspace\s+is\s+["']([^"']+)["']?/gi
    Cat(<<Lit("workspace"), Ws1, Lit("is"), Ws1, Quote, Cap(Plus(NoQuote)), Opt(Quote)>>),
    \* /use\s+["']?([^"'.,!?\n]+)\s+workspace["']?/gi
    Cat(<<Lit("use"), Ws1, Opt(Quote), Cap(Plus(NamePart)), Ws1, Lit("workspace"),
          Opt(Quote)>>),
    \* /["']([^"']+)\s+workspace["']?/gi
    Cat(<<Quote, Cap(Plus(NoQuote)), Ws1, Lit("workspace"), Opt(Quote)>>),
    \* /in\s+(?:the\s+)?["']?([^"'.,!?\n]+)\s+workspace["']?/gi
    Cat(<<Lit("in"), Ws1, Opt(Cat(<<Lit("the"), Ws1>>)), Opt(Quote), Cap(Plus(NamePart)),
          Ws1, Lit("workspace"), Opt(Quote)>>),
    \* /["']?([a-zA-Z][^"'.,!?\n]*?)\s+w[uo]rkspace["']?/gi
    Cat(<<Opt(Quote), Cap(Cat(<<Cls(Letters), StarLazy(NamePart)>>)), Ws1, Lit("w"),
          Cls("uo"), Lit("rkspace"), Opt(Quote)>>),
    \* /(?:take\s+me\s+to|navigate\s+to|go\s+to)\s+["']?([^"'.,!?\n]+)["']?(?:\s+workspace)?/gi
    Cat(<<ToVerbs, Ws1, Opt(Quote), Cap(Plus(NamePart)), Opt(Quote),
          Opt(Cat(<<Ws1, Lit("workspace")>>))>>)
>>

projectPatterns == <<
    \* /(?:ok,?\s+)?(?:go\s+with|use|with|navigate\s+to|go\s+to)\s+["']?([^"'.,!?\n]+?)\s+project["']?/gi
    Cat(<<Opt(Cat(<<Lit("ok"), Opt(Lit(",")), Ws1>>)), GoVerbs, Ws1, Opt(Quote),
          Cap(PlusLazy(NamePart)), Ws1, Lit("project"), Opt(Quote)>>),
    \* /(?:i\s+)?(?:choose|select|pick)\s+["']?([^"'.,!?\n]+)["']?/gi
    Cat(<<Opt(Cat(<<Lit("i"), Ws1>>)), Alt(<<Lit("choose"), Lit("select"), Lit("pick")>>),
          Ws1, Opt(Quote), Cap(Plus(NamePart)), Opt(Quote)>>),
    \* /project\s+is\s+["']?([^"'.,!?\n]+)["']?/gi
    Cat(<<Lit("project"), Ws1, Lit("is"), Ws1, Opt(Quote), Cap(Plus(NamePart)),
          Opt(Quote)>>),
    \* /["']?([^"'.,!?\n\s]+)\s+project["']?/gi
    Cat(<<Opt(Quote), Cap(Plus(NotCls("\"'.,!?\n \t\r"))), Ws1, Lit("project"),
          Opt(Quote)>>),
    \* /in\s+(?:the\s+)?["']?([^"'.,!?\n]+?)\s+project["']?/gi
    Cat(<<Lit("in"), Ws1, Opt(Cat(<<Lit("the"), Ws1>>)), Opt(Quote),
          Cap(PlusLazy(NamePart)), Ws1, Lit("project"), Opt(Quote)>>),
    \* /(?:take\s+me\s+to|navigate\s+to|go\s+to)\s+project\s+["']?([^"'.,!?\n]+)["']?/gi
    Cat(<<ToVerbs, Ws1, Lit("project"), Ws1, Opt(Quote), Cap(Plus(NamePart)),
          Opt(Quote)>>)
>>

skipWords ==
    <<"yes", "no", "ok", "fine", "good", "sure", "right", "correct", "thanks",
      "thank you", "i want to create a task drink water",
      "can you first list the projects sot hat i can choose",
      "the", "a", "an", "and", "or", "but", "with", "without", "please", "help">>

\* the two `continue` conditions of the project loop, lines 784-822
SkipProjectName(projectName) ==
    LET lower == ToLowerCase(projectName)
    IN  \/ Includes(lower, "workspace")
        \/ Includes(lower, "wokspace")
        \/ \E k \in DOMAIN skipWords : Includes(lower, skipWords[k])
        \/ StartsWith(lower, "i want to")
        \/ StartsWith(lower, "can you")

\* the inner loop over the matches of one workspace pattern: the first match
\* with a group is taken
RECURSIVE WorkspaceHit(_, _)
WorkspaceHit(matches, k) ==
    IF k > Len(matches) THEN [hit |-> FALSE, name |-> ""]
    ELSE IF matches[k].group # "" THEN [hit |-> TRUE, name |-> Trim(matches[k].group)]
    ELSE WorkspaceHit(matches, k + 1)

\* the messages users send in the checked runs
Messages ==
    {"hello", "take me to Foo", "go with HIMS project", "use Alpha workspace",
     "go to HIMS project", "show Foo workspace projects"}

\* the hits of every pattern on every message of Messages, computed once
WorkspaceHits ==
    [m \in Messages |->
        [p \in DOMAIN workspacePatterns |->
            WorkspaceHit(MatchAll(workspacePatterns[p], m), 1)]]

WorkspaceHitOf(p, safeMessage) ==
    IF safeMessage \in Messages THEN WorkspaceHits[safeMessage][p]
    ELSE WorkspaceHit(MatchAll(workspacePatterns[p], safeMessage), 1)

\* the outer loop over workspacePatterns[p..], acting on st = [context, contextUpdated]
RECURSIVE WorkspaceLoop(_, _, _, _)
WorkspaceLoop(p, safeMessage, lowerMessage, st) ==
    LET Named(h) == [st.context EXCEPT !.workspaceName = JStr(h.name)]
        Cleared(named) ==
            IF ~Includes(lowerMessage, "project")
            THEN [named EXCEPT !.projectSlug = Undefined, !.projectName = Undefined]
            ELSE named
        Taken(h) ==
            IF h.hit THEN [context |-> Cleared(Named(h)), contextUpdated |-> TRUE]
            ELSE st
    IN  IF p > Len(workspacePatterns) THEN st
        ELSE WorkspaceLoop(p + 1, safeMessage, lowerMessage,
                           Taken(WorkspaceHitOf(p, safeMessage)))

\* the inner loop over the matches of one project pattern: skipped names are
\* passed over, the first name that is not skipped is taken
RECURSIVE ProjectHit(_, _)
ProjectHit(matches, k) ==
    IF k > Len(matches) THEN [hit |-> FALSE, name |-> ""]
    ELSE IF matches[k].group # "" /\ ~SkipProjectName(Trim(matches[k].group))
    THEN [hit |-> TRUE, name |-> Trim(matches[k].group)]
    ELSE ProjectHit(matches, k + 1)

ProjectHits ==
    [m \in Messages |->
        [p \in DOMAIN projectPatterns |->
            ProjectHit(MatchAll(projectPatterns[p], m), 1)]]

ProjectHitOf(p, safeMessage) ==
    IF safeMessage \in Messages THEN ProjectHits[safeMessage][p]
    ELSE ProjectHit(MatchAll(projectPatterns[p], safeMessage), 1)

RECURSIVE ProjectLoop(_, _, _)
ProjectLoop(p, safeMessage, st) ==
    LET Taken(h) ==
            IF h.hit
            THEN [context |-> [st.context EXCEPT !.projectSlug = JStr(slugify(h.name)),
                                                 !.projectName = JStr(h.name)],
                  contextUpdated |-> TRUE]
            ELSE st
    IN  IF p > Len(projectPatterns) THEN st
        ELSE ProjectLoop(p + 1, safeMessage, Taken(ProjectHitOf(p, safeMessage)))

\* lines 722-727: the part of the message the patterns are run on
SafeMessage(message) ==
    IF Len(message) > MAX_MESSAGE_LENGTH
    THEN SubSeq(message, 1, MAX_MESSAGE_LENGTH) ELSE message

\* the context object after extractContextFromMessage(sessionId, message, context),
\* and whether the call stored it in the map (contextUpdated)
extractContextFromMessage(message, context, time) ==
    LET Stored(st) ==
            IF st.contextUpdated
            THEN [context |-> [st.context EXCEPT !.lastUpdated = time],
                  contextUpdated |-> TRUE]
            ELSE st
        Loops(safeMessage) ==
            Stored(ProjectLoop(1, safeMessage,
                       WorkspaceLoop(1, safeMessage, ToLowerCase(safeMessage),
                                     [context |-> context, contextUpdated |-> FALSE])))
    IN  Loops(SafeMessage(message))

(***************************************************************************)
(* generateSystemPrompt: the parts of the prompt that depend on its        *)
(* arguments (lines 212-217 and 246-266); the rest is fixed text           *)
(***************************************************************************)
Or(a, b) == IF Truthy(a) THEN a ELSE b           \* a || b

generateSystemPrompt(sessionContext, slugs) ==
    "AVAILABLE WORKSPACE SLUGS (from database):\n"
    \o (IF Len(slugs) > 0
        THEN Join([k \in DOMAIN slugs |-> "-> slug: \"" \o slugs[k] \o "\""], "\n")
        ELSE "- No workspaces available")
    \o (IF \/ Truthy(sessionContext.workspaceSlug)
           \/ Truthy(sessionContext.projectSlug)
           \/ Truthy(sessionContext.workspaceName)
        THEN "\nCURRENT CONTEXT:\n"
             \o (IF Truthy(sessionContext.workspaceSlug)
                 THEN "- Current Workspace: "
                      \o JsString(Or(sessionContext.workspaceName,
                                     sessionContext.workspaceSlug))
                      \o " (slug: " \o JsString(sessionContext.workspaceSlug) \o ")\n"
                 ELSE "")
             \o (IF Truthy(sessionContext.projectSlug)
                 THEN "- Current Project: "
                      \o JsString(Or(sessionContext.projectName,
                                     sessionContext.projectSlug))
                      \o " (slug: " \o JsString(sessionContext.projectSlug) \o ")\n"
                 ELSE "")
        ELSE "")
    \o (IF sessionContext.currentWorkSpaceProjectSlug.defined
        THEN "\n- Available Projects in Current Workspace: "
             \o Join(sessionContext.currentWorkSpaceProjectSlug.list, ", ")
        ELSE "")

(***************************************************************************)
(* validateModelName with its default options; "" when the name passes     *)
(***************************************************************************)
MaxModelLength == 100

validateModelName(model) ==
    LET trimmedModel == Trim(model)
    IN  IF model = "" THEN "Model name is required and must be a string"
        ELSE IF Len(trimmedModel) = 0 THEN "Model name cannot be empty"
        ELSE IF Len(trimmedModel) > MaxModelLength
             THEN "Model name is too long (max 100 characters)"
        ELSE IF Includes(trimmedModel, "..")
             THEN "Model name cannot contain path traversal sequences (..)"
        ELSE IF StartsWith(trimmedModel, "/")
             THEN "Model name cannot be an absolute path"
        ELSE IF ~AllIn(trimmedModel, Letters \o Digits \o ".-")
             THEN "Model name contains invalid characters"
        ELSE ""

(***************************************************************************)
(* The command step of chat(): auto-fill, slug resolution, context update  *)
(***************************************************************************)
ParamKeys ==
    {"workspaceSlug", "workspaceName", "projectSlug", "name", "description",
     "taskTitle", "updates", "updates.name"}

\* a parsed parameter object: the given members, every other key undefined;
\* a member of a nested object is keyed by its path ("updates.name")
Obj(members) ==
    [k \in ParamKeys |-> IF k \in DOMAIN members THEN members[k] ELSE Undefined]

EmptyObj == [k \in ParamKeys |-> Undefined]

\* a === b: objects are equal only to themselves, and no two parses share one
StrictEquals(a, b) ==
    /\ a = b
    /\ a.kind \notin {"object", "array"}
    /\ ~(a.kind = "number" /\ a.text = "NaN")

\* auto-fill that takes the context's slugs whether or not the reply supplied any
AutoFillOverwriting(commandName, parameters, sessionContext) ==
    LET p1 == IF /\ commandName # "listWorkspaces"
                 /\ commandName # "createWorkspace"
                 /\ Truthy(sessionContext.workspaceSlug)
              THEN Put(parameters, "workspaceSlug", sessionContext.workspaceSlug)
              ELSE parameters
    IN  IF /\ (Includes(commandName, "Task") \/ Includes(commandName, "Project"))
           /\ Truthy(sessionContext.projectSlug)
        THEN Put(p1, "projectSlug", sessionContext.projectSlug)
        ELSE p1

\* an auto-fill that takes the context's project whatever the workspace
AutoFillAnyWorkspace(commandName, parameters, sessionContext) ==
    LET p1 == IF /\ commandName # "listWorkspaces"
                 /\ commandName # "createWorkspace"
                 /\ ~Truthy(parameters["workspaceSlug"])
                 /\ Truthy(sessionContext.workspaceSlug)
              THEN Put(parameters, "workspaceSlug", sessionContext.workspaceSlug)
              ELSE parameters
    IN  IF /\ (Includes(commandName, "Task") \/ Includes(commandName, "Project"))
           /\ ~Truthy(p1["projectSlug"])
           /\ Truthy(sessionContext.projectSlug)
        THEN Put(p1, "projectSlug", sessionContext.projectSlug)
        ELSE p1

\* lines 546-562
AutoFill(commandName, parameters, sessionContext) ==
    LET p1 == IF /\ commandName # "listWorkspaces"
                 /\ commandName # "createWorkspace"
                 /\ ~Truthy(parameters["workspaceSlug"])
                 /\ Truthy(sessionContext.workspaceSlug)
              THEN Put(parameters, "workspaceSlug", sessionContext.workspaceSlug)
              ELSE parameters
    IN  IF /\ (Includes(commandName, "Task") \/ Includes(commandName, "Project"))
           /\ ~Truthy(p1["projectSlug"])
           /\ Truthy(sessionContext.projectSlug)
           /\ StrictEquals(p1["workspaceSlug"], sessionContext.workspaceSlug)
        THEN Put(p1, "projectSlug", sessionContext.projectSlug)
        ELSE p1

\* a lookup whose answer is not used
ResolveNothing(parameters, aiMessage, projectSlug) ==
    [parameters |-> parameters, aiMessage |-> aiMessage]

\* lines 571-589: the parameters and the reply after validateProjectSlug answered
\* (the replies are written without their emoji)
ResolveProjectSlug(parameters, aiMessage, projectSlug) ==
    CASE projectSlug.status = "exact" ->
            [parameters |-> Put(parameters, "projectSlug", JStr(projectSlug.slug)),
             aiMessage |-> "Great! I found the project **" \o projectSlug.slug
                           \o "**. Taking you there now."]
      [] projectSlug.status = "fuzzy" ->
            [parameters |-> Put(parameters, "projectSlug", JStr(projectSlug.slug)),
             aiMessage |-> "I couldn't find an exact match, but I found something close: **"
                           \o projectSlug.slug \o "**. Navigating there for you."]
      [] projectSlug.status = "not_found" ->
            [parameters |-> Put(parameters, "projectSlug", JStr("")),
             aiMessage |-> "I couldn't find any project matching that name. Try again with a different project name, or use **list all projects** to see what's available."]
      [] OTHER -> [parameters |-> parameters, aiMessage |-> aiMessage]

\* parameters.updates?.name
UpdatesName(parameters) ==
    IF parameters["updates"].kind = "object"
    THEN parameters["updates.name"] ELSE Undefined

\* slugify(name as string) throws when a truthy name is no string
SlugifyThrows(name) == Truthy(name) /\ name.kind # "string"

\* updateContextFromCommand, whether the assignments of lines 679-694 throw
UpdateThrows(commandName, parameters) ==
    /\ commandName \in {"navigateToProject", "createProject"}
    /\ SlugifyThrows(parameters["name"])
    /\ (commandName = "createProject" \/ ~Truthy(parameters["projectSlug"]))

\* updateContextFromCommand, the assignments of lines 647-705 to the context object;
\* projects is what getAllSlugsByWorkspaceId answered (navigateToWorkspace only)
UpdateContext(commandName, parameters, context, projects, time) ==
    LET name          == parameters["name"]
        projectSlug   == parameters["projectSlug"]
        workspaceSlug == parameters["workspaceSlug"]
        c1 == IF commandName = "navigateToWorkspace" /\ Truthy(workspaceSlug)
              THEN [context EXCEPT
                      !.currentWorkSpaceProjectSlug = [defined |-> TRUE, list |-> projects],
                      !.workspaceSlug = workspaceSlug,
                      !.workspaceName = Or(parameters["workspaceName"], workspaceSlug),
                      !.projectSlug = Undefined,
                      !.projectName = Undefined]
              ELSE context
        c2 == IF commandName = "createWorkspace" /\ Truthy(name)
              THEN [c1 EXCEPT
                      !.workspaceSlug = JStr(slugify(JsString(name))),
                      !.workspaceName = JStr(JsString(name)),
                      !.projectSlug = Undefined,
                      !.projectName = Undefined]
              ELSE c1
        c3 == IF commandName = "createProject"
              THEN [c2 EXCEPT
                      !.projectSlug = IF Truthy(name) THEN JStr(slugify(JsString(name)))
                                      ELSE projectSlug,
                      !.projectName = Or(name, projectSlug)]
              ELSE IF commandName = "navigateToProject"
              THEN [c2 EXCEPT
                      !.projectSlug = IF Truthy(projectSlug) THEN projectSlug
                                      ELSE IF Truthy(name)
                                           THEN JStr(slugify(JsString(name)))
                                           ELSE Undefined,
                      !.projectName = Or(projectSlug, name)]
              ELSE c2
        c4 == IF /\ commandName \in {"navigateToProject", "createProject"}
                 /\ Truthy(workspaceSlug)
              THEN [c3 EXCEPT !.workspaceSlug = workspaceSlug]
              ELSE c3
        c5 == IF /\ commandName = "editWorkspace"
                 /\ Truthy(UpdatesName(parameters))
                 /\ Truthy(workspaceSlug)
              THEN [c4 EXCEPT !.workspaceSlug = workspaceSlug,
                              !.workspaceName = UpdatesName(parameters)]
              ELSE c4
    IN  [c5 EXCEPT !.lastUpdated = time]

(***************************************************************************)
(* Responses of chat() and the catch at the turn boundary                  *)
(***************************************************************************)
NoAction == [present |-> FALSE, name |-> "", parameters |-> EmptyObj]

Action(commandName, parameters) ==
    [present |-> TRUE, name |-> commandName, parameters |-> parameters]

\* { message, action, success: true }
Reply(message, action) ==
    [success |-> TRUE, message |-> message, action |-> action, error |-> ""]

\* a catch that passes the error's message on as it is, empty or not
CaughtWithoutDefault(errorMessage) ==
    [success |-> FALSE, message |-> "", action |-> NoAction, error |-> errorMessage]

\* the catch of lines 615-631, given the message of the error thrown
Caught(errorMessage) ==
    [success |-> FALSE, message |-> "", action |-> NoAction,
     error |-> IF \/ Includes(errorMessage, "Failed to fetch")
                  \/ Includes(errorMessage, "NetworkError")
               THEN "Network error. Please check your internet connection."
               ELSE IF errorMessage # "" THEN errorMessage
               ELSE "Failed to process chat request"]

NoResponse == [success |-> FALSE, message |-> "", action |-> NoAction, error |-> ""]

\* lines 439-459: the message of the exception thrown for a response that is not ok
ProviderError(status, errorData) ==
    CASE status = "401" -> "Invalid API key. Please check your OpenRouter API key in settings."
      [] status = "429" -> "Rate limit exceeded by API provider. Please try again in a moment."
      [] status = "402" -> "Insufficient credits. Please check your OpenRouter account."
      [] OTHER -> IF errorData # "" THEN errorData
                  ELSE "API request failed with status " \o status

DefaultApiUrl == "https://openrouter.ai/api/v1"

\* lines 379-430: the URL the request goes to
RequestUrl(provider, apiUrl, model, apiKey) ==
    CASE provider = "anthropic" -> apiUrl \o "/messages"
      [] provider = "google" ->
            apiUrl \o "/models/" \o model \o ":generateContent?key=" \o apiKey
      [] OTHER -> apiUrl \o "/chat/completions"

(***************************************************************************)
(* The state machine                                                       *)
(***************************************************************************)
Turns == {"t1", "t2"}

MaxTurns   == 2      \* chat() calls started in one run
MaxObjects == 2      \* context objects created in one run
MaxTicks   == 2      \* clock advances in one run

RETENTION == 3600000                 \* lines 47 and 51
TickMs    == RETENTION             \* the clock advances from one timer tick to the next

NoReply == [aiMessage |-> "", marker |-> FALSE, commandName |-> "", json |-> TRUE,
            parameters |-> EmptyObj]

NoLookup == [throws |-> FALSE, status |-> "", slug |-> ""]

\* a chat() call: where it stands (pc), its arguments, its locals, what its
\* collaborators answered (failed names the one that threw), the session context
\* as the command step read it (contextRead) and what the call returned
IdleTurn ==
    [pc |-> "idle", userId |-> "", sessionId |-> "", message |-> "", ctx |-> 0,
     slugs |-> <<>>,
     isEnabled |-> "", apiKey |-> "", rawApiUrl |-> "", guard |-> "none",
     requestUrl |-> "", requests |-> 0, prompt |-> "", reply |-> NoReply,
     contextRead |-> NewContext(0), aiMessage |-> "", commandName |-> "", parameters |-> EmptyObj,
     lookup |-> NoLookup, projects |-> <<>>, action |-> NoAction, failed |-> "",
     response |-> NoResponse]

IdleConn ==
    [pc |-> "idle", apiUrl |-> "", guard |-> "none", requestUrl |-> "", requests |-> 0,
     response |-> [success |-> FALSE, message |-> "", error |-> ""]]

EmptyMap == [k \in {} |-> 0]

MapSet(m, k, v) == [x \in DOMAIN m \cup {k} |-> IF x = k THEN v ELSE m[x]]

MapDelete(m, k) == [x \in DOMAIN m \ {k} |-> m[x]]

NoProbe == [fn |-> "none"]

\* the service after its constructor ran
Init ==
    /\ conversationContexts = EmptyMap
    /\ heap = <<>>
    /\ now = 0
    /\ turn = [t \in Turns |-> IdleTurn]
    /\ started = 0
    /\ conn = IdleConn
    /\ probe = NoProbe

\* the turn ends: chat() resolves with response r
Finish(me, r) == [me EXCEPT !.pc = "done", !.response = r]

\* the turn ends in the catch of lines 615-631, collaborator who having thrown
Fail(me, who, errorMessage) ==
    [me EXCEPT !.pc = "done", !.failed = who, !.response = Caught(errorMessage)]

\* isEnabled !== 'true', negated
AiEnabled(isEnabled) == isEnabled = "true"

\* lines 299-311: chat() is called and settingsService.get('ai_enabled') answers
ChatStart(t, in) ==
    /\ t \in in.slots
    /\ turn[t].pc = "idle"
    /\ started < MaxTurns
    /\ \E req \in in.requests[t], isEnabled \in in.enabled :
          LET me == [IdleTurn EXCEPT !.userId = in.users[t],
                                     !.sessionId = req.sessionId,
                                     !.message = req.message,
                                     !.isEnabled = isEnabled.value]
          IN  turn' = [turn EXCEPT ![t] =
                  IF isEnabled.throws THEN Fail(me, "ai_enabled", isEnabled.error)
                  ELSE IF ~AiEnabled(isEnabled.value)
                  THEN Finish(me, Caught(
                          "AI chat is currently disabled. Please enable it in settings."))
                  ELSE [me EXCEPT !.pc = "findAllSlugs"]]
    /\ started' = started + 1
    /\ UNCHANGED <<conversationContexts, heap, now, conn, probe>>

\* the userId argument of chat(): each slot is the calls of one user
Users == [t \in Turns |-> IF t = "t1" THEN "u1" ELSE "u2"]

\* every caller on the one key 'default'
SessionKeyShared(sessionId) == "default"

\* chatRequest.sessionId || 'default'
SessionKey(sessionId) == IF sessionId = "" THEN "default" ELSE sessionId

\* lines 308-325: findAllSlugs answers; the session context is looked up or created
ChatGetSession(t, in) ==
    /\ turn[t].pc = "findAllSlugs"
    /\ \E slugs \in in.slugs :
          LET sessionId == SessionKey(turn[t].sessionId)
              exists    == sessionId \in DOMAIN conversationContexts
              ref       == IF exists THEN conversationContexts[sessionId]
                           ELSE Len(heap) + 1
          IN  IF slugs.throws
              THEN /\ turn' = [turn EXCEPT ![t] = Fail(@, "findAllSlugs", slugs.error)]
                   /\ UNCHANGED <<conversationContexts, heap>>
              ELSE /\ exists \/ Len(heap) < MaxObjects
                   /\ turn' = [turn EXCEPT ![t] =
                          [@ EXCEPT !.pc = "settings", !.ctx = ref, !.slugs = slugs.list]]
                   /\ heap' = IF exists THEN heap ELSE Append(heap, NewContext(now))
                   /\ conversationContexts' =
                          IF exists THEN conversationContexts
                          ELSE MapSet(conversationContexts, sessionId, ref)
    /\ UNCHANGED <<now, started, conn, probe>>

\* this.conversationContexts.set(sessionId, context), context being the object ref
StoreContext(sessionId, ref) == MapSet(conversationContexts, sessionId, ref)

\* the configured endpoint used without the guard
GuardedApiUrlUnchecked(rawApiUrl) ==
    [ok |-> TRUE, url |-> IF rawApiUrl # "" THEN rawApiUrl ELSE DefaultApiUrl,
     error |-> ""]

\* line 327: the endpoint the request will use, or the guard's rejection
GuardedApiUrl(rawApiUrl) ==
    IF rawApiUrl # "" THEN validateApiUrl(rawApiUrl)
    ELSE [ok |-> TRUE, url |-> DefaultApiUrl, error |-> ""]

\* the key check left out
HasApiKeySkipped(apiKey) == TRUE

\* !apiKey, negated
HasApiKey(apiKey) == apiKey # ""

\* lines 321-437: the three settings answer; the endpoint is guarded, the prompt is
\* built, the context heuristics run on the message and the request is sent
ChatSendRequest(t, in) ==
    /\ turn[t].pc = "settings"
    /\ \E cfg \in in.settings :
          LET me        == turn[t]
              sessionId == SessionKey(me.sessionId)
              Send(checked, provider, extracted) ==
                  LET seen == [me EXCEPT !.apiKey = cfg.apiKey,
                                         !.rawApiUrl = cfg.rawApiUrl,
                                         !.guard = IF cfg.rawApiUrl = "" THEN "default"
                                                   ELSE IF checked.ok THEN "passed"
                                                   ELSE "rejected"]
                      ready == [seen EXCEPT !.prompt =
                                   generateSystemPrompt(heap[me.ctx], me.slugs)]
                  IN  IF ~checked.ok
                      THEN /\ turn' = [turn EXCEPT ![t] =
                                  Fail(seen, "validateApiUrl", checked.error)]
                           /\ UNCHANGED <<conversationContexts, heap>>
                      ELSE IF ~HasApiKey(cfg.apiKey)
                      THEN /\ turn' = [turn EXCEPT ![t] = Finish(seen, Caught(
                                  "AI API key not configured. Please set it in settings."))]
                           /\ UNCHANGED <<conversationContexts, heap>>
                      ELSE /\ heap' = [heap EXCEPT ![me.ctx] = extracted.context]
                           /\ conversationContexts' =
                                  IF extracted.contextUpdated
                                  THEN StoreContext(sessionId, me.ctx)
                                  ELSE conversationContexts
                           /\ turn' = [turn EXCEPT ![t] =
                                  IF /\ provider = "google"
                                     /\ validateModelName(cfg.model) # ""
                                  THEN Finish(ready, Caught(validateModelName(cfg.model)))
                                  ELSE [ready EXCEPT
                                          !.pc = "fetch",
                                          !.requests = @ + 1,
                                          !.requestUrl = RequestUrl(provider, checked.url,
                                                             cfg.model, cfg.apiKey)]]
          IN  IF cfg.throws
              THEN /\ turn' = [turn EXCEPT ![t] = Fail(me, "settings", cfg.error)]
                   /\ UNCHANGED <<conversationContexts, heap>>
              ELSE Send(GuardedApiUrl(cfg.rawApiUrl),
                        detectProvider(GuardedApiUrl(cfg.rawApiUrl).url),
                        extractContextFromMessage(me.message, heap[me.ctx], now))
    /\ UNCHANGED <<now, started, conn, probe>>

\* a reader that takes every matched command, parsed or not
ParsedUnchecked(reply) == reply.marker

\* lines 485-524: a command pattern matched and JSON.parse took the payload, as it
\* was or with the missing closing braces added
Parsed(reply) == reply.marker /\ reply.json

\* lines 527-541: the text appended to the reply when validation fails
MissingParamsList(validation) ==
    IF Len(validation.missing) > 0
    THEN "I need the following information to proceed: "
         \o Join(validation.missing, ", ") \o "."
    ELSE validation.message

\* lines 433-604 up to the next await: fetch and response.json() answer; the reply is
\* searched for a command, which is validated, auto-filled and handed on.
\* The reply arrives already matched and parsed: reply.marker says one of the three
\* command patterns matched, reply.json whether the payload parsed (after repair).
ChatReceive(t, in) ==
    /\ turn[t].pc = "fetch"
    /\ \E res \in in.fetch, reply \in in.replies :
          LET me          == turn[t]
              sessionId   == SessionKey(me.sessionId)
              commandName == Trim(reply.commandName)
              got         == [me EXCEPT !.reply = reply, !.aiMessage = reply.aiMessage,
                                        !.contextRead = heap[me.ctx]]
              Command(validation, parameters) ==
                  LET action == Action(commandName, parameters)
                      held   == [got EXCEPT !.commandName = commandName,
                                            !.parameters = parameters]
                      made   == [held EXCEPT !.action = action]
                  IN  IF ~validation.valid
                      THEN /\ turn' = [turn EXCEPT ![t] =
                                  Finish(got, Reply(reply.aiMessage \o "\n\n"
                                                    \o MissingParamsList(validation),
                                                    NoAction))]
                           /\ UNCHANGED <<conversationContexts, heap>>
                      ELSE IF commandName = "navigateToProject"
                      THEN /\ turn' = [turn EXCEPT ![t] =
                                  [held EXCEPT !.pc = "validateProjectSlug"]]
                           /\ UNCHANGED <<conversationContexts, heap>>
                      ELSE IF /\ commandName = "navigateToWorkspace"
                              /\ Truthy(parameters["workspaceSlug"])
                      THEN /\ turn' = [turn EXCEPT ![t] =
                                  [made EXCEPT !.pc = "getIdBySlug"]]
                           /\ UNCHANGED <<conversationContexts, heap>>
                      ELSE IF UpdateThrows(commandName, parameters)
                      THEN /\ turn' = [turn EXCEPT ![t] =
                                  Finish(made, Reply(reply.aiMessage, action))]
                           /\ UNCHANGED <<conversationContexts, heap>>
                      ELSE /\ heap' = [heap EXCEPT ![me.ctx] =
                                  UpdateContext(commandName, parameters, heap[me.ctx],
                                                <<>>, now)]
                           /\ conversationContexts' = StoreContext(sessionId, me.ctx)
                           /\ turn' = [turn EXCEPT ![t] =
                                  Finish(made, Reply(reply.aiMessage, action))]
          IN  IF res.throws
              THEN /\ turn' = [turn EXCEPT ![t] = Fail(me, "fetch", res.error)]
                   /\ UNCHANGED <<conversationContexts, heap>>
              ELSE IF res.status # "200"
              THEN /\ turn' = [turn EXCEPT ![t] =
                          Finish(me, Caught(ProviderError(res.status, res.errorData)))]
                   /\ UNCHANGED <<conversationContexts, heap>>
              ELSE IF ~res.json
              THEN /\ turn' = [turn EXCEPT ![t] =
                          Fail(me, "response.json", "Unexpected end of JSON input")]
                   /\ UNCHANGED <<conversationContexts, heap>>
              ELSE IF ~Parsed(reply)
              THEN /\ turn' = [turn EXCEPT ![t] =
                          Finish(got, Reply(reply.aiMessage, NoAction))]
                   /\ UNCHANGED <<conversationContexts, heap>>
              ELSE Command(validateCommandParameters(commandName, reply.parameters),
                           AutoFill(commandName, reply.parameters, heap[me.ctx]))
    /\ UNCHANGED <<now, started, conn, probe>>

\* lines 567-604: validateProjectSlug answers; the slug is resolved, the action is
\* made and the context updated from it
ChatResolveSlug(t, in) ==
    /\ turn[t].pc = "validateProjectSlug"
    /\ \E projectSlug \in in.projectSlugs :
          LET me        == [turn[t] EXCEPT !.lookup = projectSlug]
              sessionId == SessionKey(me.sessionId)
              Resolved(resolved) ==
                  LET action == Action(me.commandName, resolved.parameters)
                      made   == [me EXCEPT !.action = action,
                                           !.parameters = resolved.parameters]
                  IN  IF UpdateThrows(me.commandName, resolved.parameters)
                      THEN /\ turn' = [turn EXCEPT ![t] =
                                  Finish(made, Reply(resolved.aiMessage, action))]
                           /\ UNCHANGED <<conversationContexts, heap>>
                      ELSE /\ heap' = [heap EXCEPT ![me.ctx] =
                                  UpdateContext(me.commandName, resolved.parameters,
                                                heap[me.ctx], <<>>, now)]
                           /\ conversationContexts' = StoreContext(sessionId, me.ctx)
                           /\ turn' = [turn EXCEPT ![t] =
                                  Finish(made, Reply(resolved.aiMessage, action))]
          IN  IF projectSlug.throws
              THEN /\ turn' = [turn EXCEPT ![t] =
                          Finish([me EXCEPT !.failed = "validateProjectSlug"],
                                 Reply(me.aiMessage, NoAction))]
                   /\ UNCHANGED <<conversationContexts, heap>>
              ELSE Resolved(ResolveProjectSlug(me.parameters, me.aiMessage, projectSlug))
    /\ UNCHANGED <<now, started, conn, probe>>

\* lines 643-718: getIdBySlug and getAllSlugsByWorkspaceId answer; the context takes
\* the workspace of navigateToWorkspace
ChatWorkspaceLookup(t, in) ==
    /\ turn[t].pc = "getIdBySlug"
    /\ \E projects \in in.workspaceProjects :
          LET me        == turn[t]
              sessionId == SessionKey(me.sessionId)
          IN  IF projects.throws
              THEN /\ turn' = [turn EXCEPT ![t] =
                          Finish([me EXCEPT !.failed = "getIdBySlug"],
                                 Reply(me.aiMessage, me.action))]
                   /\ UNCHANGED <<conversationContexts, heap>>
              ELSE /\ heap' = [heap EXCEPT ![me.ctx] =
                          UpdateContext(me.commandName, me.parameters, heap[me.ctx],
                                        projects.list, now)]
                   /\ conversationContexts' = StoreContext(sessionId, me.ctx)
                   /\ turn' = [turn EXCEPT ![t] =
                          Finish([me EXCEPT !.projects = projects.list],
                                 Reply(me.aiMessage, me.action))]
    /\ UNCHANGED <<now, started, conn, probe>>

\* the caller has the response; the slot is free for the next call
ChatReturn(t) ==
    /\ turn[t].pc = "done"
    /\ turn' = [turn EXCEPT ![t] = IdleTurn]
    /\ UNCHANGED <<conversationContexts, heap, now, started, conn, probe>>

\* a clearContext that empties the store
ClearEverySession(store, sessionId) ==
    [store |-> EmptyMap, response |-> [success |-> TRUE]]

\* lines 857-861: the store clearContext(sessionId) leaves and what it returns
ClearOutcome(store, sessionId) ==
    [store |-> IF sessionId \in DOMAIN store THEN MapDelete(store, sessionId)
               ELSE store,
     response |-> [success |-> TRUE]]

\* clearContext(sessionId)
clearContext(sessionId) ==
    /\ conversationContexts' = ClearOutcome(conversationContexts, sessionId).store
    /\ UNCHANGED <<heap, now, turn, started, conn, probe>>

\* a sweep that also deletes an entry exactly one retention period old
ExpiredAtThreshold(sessionId) ==
    heap[conversationContexts[sessionId]].lastUpdated <= now - RETENTION

\* the entries cleanupOldContexts deletes
Expired(sessionId) ==
    heap[conversationContexts[sessionId]].lastUpdated < now - RETENTION

\* cleanupOldContexts(), run by the interval timer of line 47
cleanupOldContexts ==
    /\ conversationContexts' =
          [k \in {x \in DOMAIN conversationContexts : ~Expired(x)} |->
              conversationContexts[k]]
    /\ UNCHANGED <<heap, now, turn, started, conn, probe>>

\* time passes
Tick ==
    /\ now < MaxTicks * TickMs
    /\ now' = now + TickMs
    /\ UNCHANGED <<conversationContexts, heap, turn, started, conn, probe>>

(***************************************************************************)
(* testConnection                                                          *)
(***************************************************************************)
ConnResult(success, message, error) ==
    [success |-> success, message |-> message, error |-> error]

\* the catch of lines 1097-1113
ConnCaught(errorMessage) ==
    ConnResult(FALSE, "",
        IF \/ Includes(errorMessage, "Failed to fetch")
           \/ Includes(errorMessage, "NetworkError")
        THEN "Network error. Please check your internet connection and API URL."
        ELSE IF errorMessage # "" THEN errorMessage
        ELSE "Connection test failed. Please check your configuration.")

\* lines 1039-1068
ConnProviderError(status, errorData) ==
    CASE status = "401" -> "Invalid API key. Please check your API key and try again."
      [] status = "429" -> "Rate limit exceeded. Please try again in a moment."
      [] status = "402" -> "Insufficient credits. Please check your account balance."
      [] status = "404" -> "Model not found. Please check the model name and try again."
      [] OTHER -> IF errorData # "" THEN errorData
                  ELSE "API request failed with status " \o status

\* lines 957-1037: the endpoint is guarded and the test request is sent
TestConnectionStart(in) ==
    /\ conn.pc = "idle"
    /\ \E dto \in in.connections :
          LET checked  == validateApiUrl(dto.apiUrl)
              provider == detectProvider(checked.url)
              badModel == IF provider = "google" THEN validateModelName(dto.model) ELSE ""
              seen     == [IdleConn EXCEPT !.apiUrl = dto.apiUrl,
                                           !.guard = IF checked.ok THEN "passed"
                                                     ELSE "rejected"]
          IN  conn' = IF ~checked.ok
                      THEN [seen EXCEPT !.pc = "done", !.response = ConnCaught(checked.error)]
                      ELSE IF badModel # ""
                      THEN [seen EXCEPT !.pc = "done", !.response = ConnCaught(badModel)]
                      ELSE [seen EXCEPT !.pc = "fetch", !.requests = @ + 1,
                                        !.requestUrl = RequestUrl(provider, checked.url,
                                                           dto.model, dto.apiKey)]
    /\ UNCHANGED <<conversationContexts, heap, now, turn, started, probe>>

\* lines 1033-1113: fetch and response.json() answer
TestConnectionFinish(in) ==
    /\ conn.pc = "fetch"
    /\ \E res \in in.fetch, reply \in in.replies :
          conn' = [conn EXCEPT !.pc = "done", !.response =
                      IF res.throws THEN ConnCaught(res.error)
                      ELSE IF res.status # "200"
                      THEN ConnResult(FALSE, "", ConnProviderError(res.status, res.errorData))
                      ELSE IF ~res.json THEN ConnCaught("Unexpected end of JSON input")
                      ELSE IF reply.aiMessage # ""
                      THEN ConnResult(TRUE,
                             "Connection successful! Your AI configuration is working correctly.",
                             "")
                      ELSE ConnResult(FALSE, "",
                             "Received empty response from AI provider. Please check your configuration.")]
    /\ UNCHANGED <<conversationContexts, heap, now, turn, started, probe>>

\* the caller has the result
TestConnectionReturn ==
    /\ conn.pc = "done"
    /\ conn' = IdleConn
    /\ UNCHANGED <<conversationContexts, heap, now, turn, started, probe>>


(***************************************************************************)
(* The pure functions, applied to an input drawn by Init                   *)
(***************************************************************************)
\* validateCommandParameters(probe.commandName, probe.parameters) is called
ProbeValidate ==
    /\ probe.fn = "validateCommandParameters"
    /\ ~probe.done
    /\ probe' = [probe EXCEPT !.done = TRUE, !.result =
                    validateCommandParameters(probe.commandName, probe.parameters)]
    /\ UNCHANGED <<conversationContexts, heap, now, turn, started, conn>>

\* validateApiUrl(probe.apiUrl) and detectProvider(probe.apiUrl) are called
ProbeUrl ==
    /\ probe.fn = "validateApiUrl"
    /\ ~probe.done
    /\ probe' = [probe EXCEPT !.done = TRUE, !.result = validateApiUrl(probe.apiUrl),
                              !.provider = detectProvider(probe.apiUrl)]
    /\ UNCHANGED <<conversationContexts, heap, now, turn, started, conn>>

(***************************************************************************)
(* The service on a grammar file of any shape: probe.grammar is what the   *)
(* import of line 10 yields, hasCommands / hasName / hasParams say which   *)
(* properties the file has.                                                *)
(***************************************************************************)
\* lines 39-48: the constructor assigns the imported grammar and starts the timer
Constructor(grammar) == [commands |-> grammar, threw |-> FALSE]

\* lines 89-114: this.commands.commands.map(...) with cmd.params.filter(...) in it
CommandList(commands) ==
    IF ~commands.hasCommands
    THEN [throws |-> TRUE, error |-> "Cannot read properties of undefined (reading 'map')"]
    ELSE IF \E i \in DOMAIN commands.commands : ~commands.commands[i].hasParams
    THEN [throws |-> TRUE,
          error |-> "Cannot read properties of undefined (reading 'filter')"]
    ELSE [throws |-> FALSE, error |-> ""]

\* new AiChatService(...)
ProbeConstruct ==
    /\ probe.fn = "grammar"
    /\ probe.pc = "boot"
    /\ probe' = [probe EXCEPT !.pc = IF Constructor(probe.grammar).threw
                                     THEN "failed" ELSE "ready"]
    /\ UNCHANGED <<conversationContexts, heap, now, turn, started, conn>>

\* lines 300-343: chat() on the constructed service, up to the system prompt; with
\* the prompt built the turn goes on to its request
ProbeChat ==
    /\ probe.fn = "grammar"
    /\ probe.pc = "ready"
    /\ started < MaxTurns
    /\ \E isEnabled \in {"true", "false"}, apiKey \in {"", "sk-1"},
          message \in {"hello", "take me to Foo", "go to HIMS project"} :
          LET list == CommandList(Constructor(probe.grammar).commands)
              asked == [probe EXCEPT !.pc = "done", !.isEnabled = isEnabled,
                                     !.apiKey = apiKey, !.message = message]
          IN  probe' =
                IF ~AiEnabled(isEnabled)
                THEN [asked EXCEPT !.response = Caught(
                        "AI chat is currently disabled. Please enable it in settings.")]
                ELSE IF ~HasApiKey(apiKey)
                THEN [asked EXCEPT !.response = Caught(
                        "AI API key not configured. Please set it in settings.")]
                ELSE IF list.throws
                THEN [asked EXCEPT !.failed = "generateSystemPrompt",
                                   !.response = Caught(list.error)]
                ELSE [asked EXCEPT !.requests = 1]
    /\ started' = started + 1
    /\ UNCHANGED <<conversationContexts, heap, now, turn, conn>>

\* the caller has the response
ProbeChatReturn ==
    /\ probe.fn = "grammar"
    /\ probe.pc = "done"
    /\ probe' = [probe EXCEPT !.pc = "ready", !.isEnabled = "", !.apiKey = "",
                              !.message = "", !.failed = "", !.requests = 0,
                              !.response = Reply("", NoAction)]
    /\ UNCHANGED <<conversationContexts, heap, now, turn, started, conn>>

(***************************************************************************)
(* The command payload: JSON.parse and the brace repair of lines 500-524,  *)
(* on payloads that are objects of strings and objects, written without    *)
(* white space and without escapes.                                        *)
(***************************************************************************)
JsonText(text)      == [kind |-> "string", text |-> text, members |-> <<>>]
JsonObject(members) == [kind |-> "object", text |-> "", members |-> members]
JsonFails           == [ok |-> FALSE, value |-> JsonText(""), next |-> 0]

\* JSON.stringify(value)
RECURSIVE Stringify(_)
Stringify(value) ==
    IF value.kind = "string" THEN "\"" \o value.text \o "\""
    ELSE "{" \o Join([k \in DOMAIN value.members |->
                        "\"" \o value.members[k].key \o "\":"
                        \o Stringify(value.members[k].value)], ",") \o "}"

\* a string literal at position i
ParseString(s, i) ==
    LET Closed(j) == IF j = 0 THEN JsonFails
                     ELSE [ok |-> TRUE, value |-> JsonText(SubSeq(s, i + 1, j - 1)),
                           next |-> j + 1]
    IN  IF i > Len(s) \/ CharAt(s, i) # "\"" THEN JsonFails
        ELSE Closed(IndexFrom(s, "\"", i + 1))

\* a value at position i, and the members of an object from position i on
RECURSIVE ParseValue(_, _), ParseMembers(_, _, _)
ParseValue(s, i) ==
    IF i > Len(s) THEN JsonFails
    ELSE IF CharAt(s, i) = "\"" THEN ParseString(s, i)
    ELSE IF CharAt(s, i) # "{" THEN JsonFails
    ELSE IF i < Len(s) /\ CharAt(s, i + 1) = "}"
    THEN [ok |-> TRUE, value |-> JsonObject(<<>>), next |-> i + 2]
    ELSE ParseMembers(s, i + 1, <<>>)

ParseMembers(s, i, seen) ==
    LET Member(key, val) ==
            LET members == Append(seen, [key |-> key.value.text, value |-> val.value])
            IN  IF ~val.ok \/ val.next > Len(s) THEN JsonFails
                ELSE IF CharAt(s, val.next) = ","
                THEN ParseMembers(s, val.next + 1, members)
                ELSE IF CharAt(s, val.next) = "}"
                THEN [ok |-> TRUE, value |-> JsonObject(members), next |-> val.next + 1]
                ELSE JsonFails
        Keyed(key) ==
            IF ~key.ok \/ key.next > Len(s) \/ CharAt(s, key.next) # ":" THEN JsonFails
            ELSE Member(key, ParseValue(s, key.next + 1))
    IN  Keyed(ParseString(s, i))

\* line 502: JSON.parse(text); ok = FALSE when it throws
JsonParse(text) ==
    LET Whole(r) == IF r.ok /\ r.next = Len(text) + 1
                    THEN [ok |-> TRUE, value |-> r.value]
                    ELSE [ok |-> FALSE, value |-> JsonText("")]
    IN  Whole(ParseValue(text, 1))

\* n closing braces
RECURSIVE Braces(_)
Braces(n) == IF n <= 0 THEN "" ELSE "}" \o Braces(n - 1)

\* a repair that appends nothing
RepairNothing(parametersString) == parametersString

\* lines 505-516: every '{' counts up and every '}' down, wherever it stands; the
\* count, when positive, is the number of braces appended
RepairJson(parametersString) ==
    LET opened == Cardinality({i \in 1..Len(parametersString) :
                                 CharAt(parametersString, i) = "{"})
        closed == Cardinality({i \in 1..Len(parametersString) :
                                 CharAt(parametersString, i) = "}"})
    IN  parametersString \o Braces(opened - closed)

\* lines 500-524: the parameters, or ok = FALSE when the original error is rethrown
ParseWithRepair(parametersString) ==
    LET Repaired(first) ==
            IF first.ok THEN first ELSE JsonParse(RepairJson(parametersString))
    IN  Repaired(JsonParse(parametersString))

(***************************************************************************)
(* The command marker (lines 485-493): the three patterns, tried in order  *)
(* on the reply                                                            *)
(***************************************************************************)
LineEnds == {"\n", "\r"}

\* the text the three patterns are matched on: aiMessage as it was received
CommandText(aiMessage) == aiMessage

\* whether "[COMMAND:" \s* [^\]]+ "]" closing \s* "{" matches at position p, and,
\* when closed, whether the line of the "{" ends with "}"
MarkerAt(text, p, closing, closed) ==
    LET Payload(r) ==
            LET ends == {j \in r..Len(text) : CharAt(text, j) \in LineEnds}
                last == IF ends = {} THEN Len(text) ELSE MinOf(ends) - 1
            IN  /\ r <= Len(text)
                /\ CharAt(text, r) = "{"
                /\ closed => (last > r /\ CharAt(text, last) = "}")
        Spaced(q) ==
            LET inked == {j \in q..Len(text) : CharAt(text, j) \notin WhiteSpace}
            IN  inked # {} /\ Payload(MinOf(inked))
        Named(q) ==
            /\ q >= p + 10
            /\ StartsWith(SubSeq(text, q + 1, Len(text)), closing)
            /\ Spaced(q + Len(closing) + 1)
    IN  /\ StartsWith(SubSeq(text, p, Len(text)), "[COMMAND:")
        /\ Named(IndexFrom(text, "]", p + 9))

\* lines 485-493: whether one of the three patterns matches
CommandMatch(text) ==
    LET starts == {p \in 1..(Len(text) - 8) : SubSeq(text, p, p + 8) = "[COMMAND:"}
    IN  \/ \E p \in starts :
               /\ p > 2
               /\ SubSeq(text, p - 2, p - 1) = "**"
               /\ MarkerAt(text, p, "**", TRUE)
        \/ \E p \in starts : MarkerAt(text, p, "", TRUE)
        \/ \E p \in starts : MarkerAt(text, p, "", FALSE)

\* what a turn scans of probe.aiMessage and of probe.message
ProbeScan ==
    /\ probe.fn = "scan"
    /\ ~probe.done
    /\ probe' = [probe EXCEPT !.done = TRUE,
                              !.result =
                                [commandText |-> Len(CommandText(probe.aiMessage)),
                                 commandMatch |-> CommandMatch(CommandText(probe.aiMessage)),
                                 safeMessage |-> Len(SafeMessage(probe.message))]]
    /\ UNCHANGED <<conversationContexts, heap, now, turn, started, conn>>

\* extractContextFromMessage(sessionId, probe.message, context) on a new context
ProbeExtract ==
    /\ probe.fn = "extract"
    /\ ~probe.done
    /\ probe' = [probe EXCEPT !.done = TRUE,
                              !.result = extractContextFromMessage(probe.message,
                                                                   NewContext(0), 1)]
    /\ UNCHANGED <<conversationContexts, heap, now, turn, started, conn>>

\* the payload is parsed
ProbeRepair ==
    /\ probe.fn = "repair"
    /\ ~probe.done
    /\ probe' = [probe EXCEPT !.done = TRUE,
                              !.result = ParseWithRepair(probe.parametersString)]
    /\ UNCHANGED <<conversationContexts, heap, now, turn, started, conn>>

(***************************************************************************)
(* What the collaborators answer and what callers send, per specification  *)
(***************************************************************************)
Answer(value)    == [throws |-> FALSE, value |-> value, error |-> ""]
Throws(error)    == [throws |-> TRUE, value |-> "", error |-> error]
Slugs(list)      == [throws |-> FALSE, list |-> list, error |-> ""]
SlugsThrow(e)    == [throws |-> TRUE, list |-> <<>>, error |-> e]
Settings(apiKey, model, rawApiUrl) ==
    [throws |-> FALSE, error |-> "", apiKey |-> apiKey, model |-> model,
     rawApiUrl |-> rawApiUrl]
SettingsThrow(e) ==
    [throws |-> TRUE, error |-> e, apiKey |-> "", model |-> "", rawApiUrl |-> ""]
Fetched(status, json, errorData) ==
    [throws |-> FALSE, error |-> "", status |-> status, json |-> json,
     errorData |-> errorData]
FetchThrows(e) ==
    [throws |-> TRUE, error |-> e, status |-> "", json |-> FALSE, errorData |-> ""]
PlainReply(aiMessage) ==
    [aiMessage |-> aiMessage, marker |-> FALSE, commandName |-> "", json |-> TRUE,
     parameters |-> EmptyObj]
CommandReply(aiMessage, commandName, members) ==
    [aiMessage |-> aiMessage, marker |-> TRUE, commandName |-> commandName,
     json |-> TRUE, parameters |-> Obj(members)]
BrokenReply(aiMessage, commandName) ==
    [aiMessage |-> aiMessage, marker |-> TRUE, commandName |-> commandName,
     json |-> FALSE, parameters |-> EmptyObj]
Lookup(status, slug) == [throws |-> FALSE, status |-> status, slug |-> slug]
LookupThrows         == [throws |-> TRUE, status |-> "", slug |-> ""]
Projects(list)       == [throws |-> FALSE, list |-> list]
ProjectsThrow        == [throws |-> TRUE, list |-> <<>>]

DefaultModel == "deepseek/deepseek-chat-v3-0324:free"

GoodSettings == Settings("sk-1", DefaultModel, "")
Ok200        == Fetched("200", TRUE, "")

\* two callers whose turns overlap, on one session id or on two, with clears,
\* sweeps and the clock
ConcurrentInputs ==
    [slots    |-> Turns,
     users    |-> Users,
     requests |-> [t \in Turns |->
                     IF t = "t1"
                     THEN {[sessionId |-> "s1", message |-> "go with HIMS project"]}
                     ELSE {[sessionId |-> "s1", message |-> "take me to Foo"],
                           [sessionId |-> "", message |-> "take me to Foo"]}],
     enabled  |-> {Answer("true")},
     slugs    |-> {Slugs(<<"w1", "w2">>)},
     settings |-> {GoodSettings},
     fetch    |-> {Ok200},
     replies  |-> {CommandReply("Going.", "navigateToWorkspace",
                                [workspaceSlug |-> JStr("w1")]),
                   CommandReply("Opening.", "navigateToProject",
                                [workspaceSlug |-> JStr("w2"), projectSlug |-> JStr("p2")])},
     projectSlugs |-> {Lookup("exact", "p2")},
     workspaceProjects |-> {Projects(<<"p1">>)},
     clears   |-> {"default", "s1"}]

\* one caller, one turn after the other; every collaborator may fail and the
\* model replies with every kind of command payload
TurnInputs ==
    [slots    |-> {"t1"},
     users    |-> Users,
     requests |-> [t \in Turns |->
                     {[sessionId |-> "s1", message |-> "hello"],
                      [sessionId |-> "s1", message |-> "use Alpha workspace"],
                      [sessionId |-> "s1", message |-> "show Foo workspace projects"]}],
     enabled  |-> {Answer("true"), Throws("settings store down")},
     slugs    |-> {Slugs(<<"w1", "w2">>), SlugsThrow("database down")},
     settings |-> {GoodSettings, SettingsThrow(""),
                   Settings("sk-1", DefaultModel, "http://api.openai.com/v1")},
     fetch    |-> {Ok200, Fetched("200", FALSE, ""), FetchThrows("Failed to fetch")},
     replies  |-> {PlainReply("Hi."),
                   BrokenReply("Doing it.", "listProjects"),
                   CommandReply("Going.", "navigateToWorkspace",
                                [workspaceSlug |-> JStr("w1")]),
                   CommandReply("Listing.", "listProjects", <<>>),
                   CommandReply("Listing.", "listProjects",
                                [workspaceSlug |-> JStr("w2")]),
                   CommandReply("Listing.", "listProjects",
                                [workspaceSlug |-> JStr("w1")]),
                   CommandReply("Adding.", "createTask", [taskTitle |-> JStr("Review")]),
                   CommandReply("Creating.", "createWorkspace",
                                [name |-> JStr("My Space"), description |-> JStr("ours")]),
                   CommandReply("Creating.", "createProject",
                                [workspaceSlug |-> JStr("w1"), name |-> JStr("Beta App"),
                                 projectSlug |-> JStr("beta")]),
                   CommandReply("Removing.", "deleteWorkspace",
                                [workspaceSlug |-> JStr("w1")]),
                   CommandReply("Opening.", "navigateToProject",
                                [workspaceSlug |-> JStr("w1"),
                                 projectSlug |-> JStr("marketng")])},
     projectSlugs |-> {Lookup("exact", "marketng"), Lookup("fuzzy", "marketing"),
                       Lookup("not_found", ""), LookupThrows},
     workspaceProjects |-> {Projects(<<"marketing">>), ProjectsThrow},
     clears   |-> {}]

\* the endpoint of a local Ollama server
OllamaEndpoint == "http://localhost:11434/v1"

\* the endpoints the setup instructions give
ReadmeEndpoints ==
    {"https://openrouter.ai/api/v1", "https://api.openai.com/v1",
     "https://api.anthropic.com/v1", OllamaEndpoint}

EndpointUrls ==
    ReadmeEndpoints \cup
    {"http://api.openai.com/v1", "https://evil.example/v1",
     "https://10.p.googleapis.com", "https://api.anthropic.com:8443",
     "https://api.anthropic.com/v1/", "not a url"}

\* one caller of chat() and one of testConnection(), with every kind of
\* configuration and every kind of provider answer
GuardInputs ==
    [slots    |-> {"t1"},
     users    |-> Users,
     requests |-> [t \in Turns |-> {[sessionId |-> "s1", message |-> "hello"]}],
     enabled  |-> {Answer("true"), Answer("false"), Answer("")},
     slugs    |-> {Slugs(<<"w1">>)},
     settings |-> {Settings(apiKey, DefaultModel, rawApiUrl) :
                     apiKey \in {"", "sk-1"}, rawApiUrl \in EndpointUrls \cup {""}},
     fetch    |-> {Ok200, Fetched("401", TRUE, ""), Fetched("429", TRUE, ""),
                   Fetched("500", TRUE, "upstream failure"),
                   FetchThrows("NetworkError when attempting to fetch resource")},
     replies  |-> {PlainReply("Hi."), PlainReply("")},
     connections |-> {[apiKey |-> "sk-1", model |-> DefaultModel, apiUrl |-> apiUrl] :
                        apiUrl \in EndpointUrls}]

(***************************************************************************)
(* Specifications                                                          *)
(***************************************************************************)
Next ==
    \/ \E t \in Turns : ChatStart(t, ConcurrentInputs)
    \/ \E t \in Turns : ChatGetSession(t, ConcurrentInputs)
    \/ \E t \in Turns : ChatSendRequest(t, ConcurrentInputs)
    \/ \E t \in Turns : ChatReceive(t, ConcurrentInputs)
    \/ \E t \in Turns : ChatResolveSlug(t, ConcurrentInputs)
    \/ \E t \in Turns : ChatWorkspaceLookup(t, ConcurrentInputs)
    \/ \E t \in Turns : ChatReturn(t)
    \/ \E sessionId \in ConcurrentInputs.clears : clearContext(sessionId)
    \/ cleanupOldContexts
    \/ Tick

Spec == Init /\ [][Next]_vars

\* the same callers and the timer, without clearContext
NextSweep ==
    \/ \E t \in Turns : ChatStart(t, ConcurrentInputs)
    \/ \E t \in Turns : ChatGetSession(t, ConcurrentInputs)
    \/ \E t \in Turns : ChatSendRequest(t, ConcurrentInputs)
    \/ \E t \in Turns : ChatReceive(t, ConcurrentInputs)
    \/ \E t \in Turns : ChatResolveSlug(t, ConcurrentInputs)
    \/ \E t \in Turns : ChatWorkspaceLookup(t, ConcurrentInputs)
    \/ \E t \in Turns : ChatReturn(t)
    \/ cleanupOldContexts
    \/ Tick

SpecSweep == Init /\ [][NextSweep]_vars

NextTurn ==
    \/ \E t \in Turns : ChatStart(t, TurnInputs)
    \/ \E t \in Turns : ChatGetSession(t, TurnInputs)
    \/ \E t \in Turns : ChatSendRequest(t, TurnInputs)
    \/ \E t \in Turns : ChatReceive(t, TurnInputs)
    \/ \E t \in Turns : ChatResolveSlug(t, TurnInputs)
    \/ \E t \in Turns : ChatWorkspaceLookup(t, TurnInputs)
    \/ \E t \in Turns : ChatReturn(t)

SpecTurn == Init /\ [][NextTurn]_vars

\* the same callers and clearContext, without the timer
NextClear ==
    \/ \E t \in Turns : ChatStart(t, ConcurrentInputs)
    \/ \E t \in Turns : ChatGetSession(t, ConcurrentInputs)
    \/ \E t \in Turns : ChatSendRequest(t, ConcurrentInputs)
    \/ \E t \in Turns : ChatReceive(t, ConcurrentInputs)
    \/ \E t \in Turns : ChatResolveSlug(t, ConcurrentInputs)
    \/ \E t \in Turns : ChatWorkspaceLookup(t, ConcurrentInputs)
    \/ \E t \in Turns : ChatReturn(t)
    \/ \E sessionId \in ConcurrentInputs.clears : clearContext(sessionId)

SpecClear == Init /\ [][NextClear]_vars

\* callers of one session whose turns may name nothing and draw no command, and
\* the timer
IdleInputs ==
    [ConcurrentInputs EXCEPT
        !.requests = [t \in Turns |->
                        {[sessionId |-> "s1", message |-> "hello"],
                         [sessionId |-> "s1", message |-> "use Alpha workspace"]}],
        !.replies = {PlainReply("Hi."), CommandReply("Listing.", "listWorkspaces", <<>>)}]

NextIdle ==
    \/ \E t \in Turns : ChatStart(t, IdleInputs)
    \/ \E t \in Turns : ChatGetSession(t, IdleInputs)
    \/ \E t \in Turns : ChatSendRequest(t, IdleInputs)
    \/ \E t \in Turns : ChatReceive(t, IdleInputs)
    \/ \E t \in Turns : ChatReturn(t)
    \/ cleanupOldContexts
    \/ Tick

SpecIdle == Init /\ [][NextIdle]_vars

NextGuard ==
    \/ \E t \in Turns : ChatStart(t, GuardInputs)
    \/ \E t \in Turns : ChatGetSession(t, GuardInputs)
    \/ \E t \in Turns : ChatSendRequest(t, GuardInputs)
    \/ \E t \in Turns : ChatReceive(t, GuardInputs)
    \/ \E t \in Turns : ChatReturn(t)
    \/ TestConnectionStart(GuardInputs)
    \/ TestConnectionFinish(GuardInputs)
    \/ TestConnectionReturn

SpecGuard == Init /\ [][NextGuard]_vars

\* the inputs of validateCommandParameters: every command of the grammar and two
\* names outside it, with parameter objects of every kind of JSON value
ProbeCommands == CommandNames \cup {"deleteWorkspace", ""}

ProbeValues ==
    {Undefined, JNull, JStr(""), JStr("  "), JStr("w1"), JNum("0"), JBool("false")}

ProbeParameters ==
    {Obj([workspaceSlug |-> a, projectSlug |-> b, taskTitle |-> c, name |-> d]) :
        a \in ProbeValues, b \in ProbeValues, c \in ProbeValues,
        d \in {Undefined, JStr("Plan")}}

InitValidate ==
    /\ conversationContexts = EmptyMap
    /\ heap = <<>>
    /\ now = 0
    /\ turn = [t \in Turns |-> IdleTurn]
    /\ started = 0
    /\ conn = IdleConn
    /\ probe \in {[fn |-> "validateCommandParameters", commandName |-> n,
                   parameters |-> p, done |-> FALSE,
                   result |-> [valid |-> FALSE, missing |-> <<>>, message |-> ""]] :
                     n \in ProbeCommands, p \in ProbeParameters}

NextValidate == ProbeValidate

SpecValidate == InitValidate /\ [][NextValidate]_vars

\* the inputs of validateApiUrl: URLs put together from their parts
ProbeSchemes == {"https", "http", "HTTPS"}
ProbeUserinfo == {"", "api.openai.com@"}
ProbeHosts ==
    {"api.openai.com", "API.OpenAI.com", "openrouter.ai", "api.anthropic.com",
     "generativelanguage.googleapis.com", "aiplatform.googleapis.com",
     "us-central1-aiplatform.googleapis.com", "10.p.googleapis.com",
     "fd00.p.googleapis.com", "my.openai.azure.com",
     "bedrock-runtime.us-east-1.amazonaws.com", "evil.example",
     "api.openai.com.evil.example", "localhost", "127.0.0.1", "192.168.1.5",
     "169.254.169.254", "[::1]"}
ProbePorts == {"", ":443", ":8443", ":80"}
ProbePaths == {"", "/v1", "/v1/"}

InitUrl ==
    /\ conversationContexts = EmptyMap
    /\ heap = <<>>
    /\ now = 0
    /\ turn = [t \in Turns |-> IdleTurn]
    /\ started = 0
    /\ conn = IdleConn
    /\ probe \in {[fn |-> "validateApiUrl", scheme |-> s, userinfo |-> u, host |-> h,
                   port |-> p, path |-> q,
                   apiUrl |-> s \o "://" \o u \o h \o p \o q,
                   done |-> FALSE, result |-> Rejected(""), provider |-> ""] :
                     s \in ProbeSchemes, u \in ProbeUserinfo, h \in ProbeHosts,
                     p \in ProbePorts, q \in ProbePaths}

NextUrl == ProbeUrl

SpecUrl == InitUrl /\ [][NextUrl]_vars

\* grammar files: the well-formed one, an empty list, and corrupt ones
GrammarEntry(command) ==
    [name |-> command.name, params |-> command.params,
     hasName |-> TRUE, hasParams |-> TRUE]

WellFormedGrammar ==
    [hasCommands |-> TRUE,
     commands |-> [i \in DOMAIN commandsData.commands |->
                      GrammarEntry(commandsData.commands[i])]]

ProbeGrammars ==
    {WellFormedGrammar,
     [hasCommands |-> TRUE, commands |-> <<>>],
     [hasCommands |-> FALSE, commands |-> <<>>],
     [WellFormedGrammar EXCEPT !.commands[1].hasName = FALSE, !.commands[1].name = ""],
     [WellFormedGrammar EXCEPT !.commands[2].hasParams = FALSE,
                               !.commands[2].params = <<>>]}

InitGrammar ==
    /\ conversationContexts = EmptyMap
    /\ heap = <<>>
    /\ now = 0
    /\ turn = [t \in Turns |-> IdleTurn]
    /\ started = 0
    /\ conn = IdleConn
    /\ probe \in {[fn |-> "grammar", grammar |-> g, pc |-> "boot", isEnabled |-> "",
                   apiKey |-> "", message |-> "", failed |-> "", requests |-> 0,
                   response |-> Reply("", NoAction)] : g \in ProbeGrammars}

NextGrammar ==
    \/ ProbeConstruct
    \/ ProbeChat
    \/ ProbeChatReturn

SpecGrammar == InitGrammar /\ [][NextGrammar]_vars

\* payloads: objects of one or two members, nested up to MaxDepth, whose strings
\* are plain or hold braces
MaxDepth == 2

ProbeTexts == {"x", "{", "}", "a}", "{}"}

RECURSIVE ProbeObjects(_)
ProbeObjects(depth) ==
    LET values == {JsonText(t) : t \in ProbeTexts}
                  \cup (IF depth <= 1 THEN {} ELSE ProbeObjects(depth - 1))
    IN  {JsonObject(<<>>)}
        \cup {JsonObject(<<[key |-> "a", value |-> v]>>) : v \in values}
        \cup {JsonObject(<<[key |-> "a", value |-> JsonText(t)],
                           [key |-> "b", value |-> v]>>) :
                 t \in {"x", "}"}, v \in values}

\* the closing braces the text ends with
TrailingBraces(text) ==
    Len(text) - MaxOf({i \in 0..Len(text) : i = 0 \/ CharAt(text, i) # "}"})

InitRepair ==
    /\ conversationContexts = EmptyMap
    /\ heap = <<>>
    /\ now = 0
    /\ turn = [t \in Turns |-> IdleTurn]
    /\ started = 0
    /\ conn = IdleConn
    /\ probe \in {[fn |-> "repair", original |-> v, removed |-> n,
                   parametersString |->
                       SubSeq(Stringify(v), 1, Len(Stringify(v)) - n),
                   done |-> FALSE, result |-> [ok |-> FALSE, value |-> JsonText("")]] :
                     v \in ProbeObjects(MaxDepth), n \in 1..MaxDepth}
    /\ probe.removed <= TrailingBraces(Stringify(probe.original))

NextRepair == ProbeRepair

SpecRepair == InitRepair /\ [][NextRepair]_vars

\* n dots
RECURSIVE Dots(_)
Dots(n) ==
    IF n <= 0 THEN "" ELSE IF n = 1 THEN "."
    ELSE Dots(n \div 2) \o Dots(n - n \div 2)

\* texts of n dots, for lengths around the cut of the user message
ProbeLengths ==
    {0, 1, 100, MAX_MESSAGE_LENGTH - 1, MAX_MESSAGE_LENGTH, MAX_MESSAGE_LENGTH + 1,
     2 * MAX_MESSAGE_LENGTH}

\* what follows the dots of a reply, and of a message
ProbeMarkers ==
    {"", "\n**[COMMAND: listWorkspaces]** {}", "\n[COMMAND: listWorkspaces] {}",
     "\n[COMMAND: navigateToWorkspace] {\"workspaceSlug\":\"w1\""}

ProbeMentions == {"", " use Alpha workspace"}

InitScan ==
    /\ conversationContexts = EmptyMap
    /\ heap = <<>>
    /\ now = 0
    /\ turn = [t \in Turns |-> IdleTurn]
    /\ started = 0
    /\ conn = IdleConn
    /\ probe \in {[fn |-> "scan", aiMessage |-> Dots(n) \o marker,
                   message |-> Dots(m) \o mention, done |-> FALSE,
                   result |-> [commandText |-> 0, commandMatch |-> FALSE,
                               safeMessage |-> 0]] :
                     n \in ProbeLengths, marker \in ProbeMarkers,
                     m \in ProbeLengths, mention \in ProbeMentions}

NextScan == ProbeScan

SpecScan == InitScan /\ [][NextScan]_vars

\* messages of the shape "<verb> <name><tail>"
ProbeVerbs == {"use", "go to", "go with", "take me to", "in", "show"}
ProbeNames == {"the", "a", "ok", "yes", "please", "Foo", "HIMS", "Beta", "Big Blue"}
ProbeTails == {"", " workspace", " project"}

InitExtract ==
    /\ conversationContexts = EmptyMap
    /\ heap = <<>>
    /\ now = 0
    /\ turn = [t \in Turns |-> IdleTurn]
    /\ started = 0
    /\ conn = IdleConn
    /\ probe \in {[fn |-> "extract", verb |-> verb, name |-> name, tail |-> tail,
                   message |-> verb \o " " \o name \o tail, done |-> FALSE,
                   result |-> [context |-> NewContext(0), contextUpdated |-> FALSE]] :
                     verb \in ProbeVerbs, name \in ProbeNames, tail \in ProbeTails}

NextExtract == ProbeExtract

SpecExtract == InitExtract /\ [][NextExtract]_vars

(***************************************************************************)
(* chat() run on its own: what one turn does to a context when no other    *)
(* turn runs between its awaits (lines 356-604)                            *)
(***************************************************************************)
CommandEffect(context, me) ==
    LET commandName == Trim(me.reply.commandName)
        Applied(parameters) ==
            IF UpdateThrows(commandName, parameters) THEN context
            ELSE UpdateContext(commandName, parameters, context, me.projects, 0)
        Filled(parameters) ==
            IF commandName = "navigateToProject"
            THEN IF me.lookup.throws THEN context
                 ELSE Applied(ResolveProjectSlug(parameters, me.reply.aiMessage,
                                                 me.lookup).parameters)
            ELSE IF me.failed = "getIdBySlug" THEN context
            ELSE Applied(parameters)
    IN  IF ~(me.reply.marker /\ me.reply.json) THEN context
        ELSE IF ~validateCommandParameters(commandName, me.reply.parameters).valid
             THEN context
        ELSE Filled(AutoFill(commandName, me.reply.parameters, context))

TurnEffect(context, me) ==
    CommandEffect(extractContextFromMessage(me.message, context, 0).context, me)

(***************************************************************************)
(* The claims                                                              *)
(***************************************************************************)
\* a value the specification calls absent or blank
Blank(v) == v.kind \in {"undefined", "null"} \/ Trim(JsString(v)) = ""

\* the required parameters of a command, none for a name outside the grammar
RequiredOf(commandName) == Range(RequiredParams(FindCommand(commandName)))

\* the session key a caller's session id stands for
EffectiveKey(sessionId) == IF sessionId = "" THEN "default" ELSE sessionId

\* C1: every action a chat turn returns has a non-blank value for each required
\* parameter of its command, after auto-fill and after project-slug resolution
C1_ActionHasRequiredParameters ==
    \A t \in Turns :
        (turn[t].pc = "done" /\ turn[t].response.action.present) =>
            \A p \in RequiredOf(turn[t].response.action.name) :
                ~Blank(turn[t].response.action.parameters[p])

\* C2: validateCommandParameters answers valid exactly when the command is in the
\* grammar and every required parameter is present and non-blank after trimming;
\* when the command exists and validation fails, missing lists exactly the
\* required parameters that are absent or blank
C2_ValidIffRequiredPresent ==
    (probe.fn = "validateCommandParameters" /\ probe.done) =>
        LET known  == probe.commandName \in CommandNames
            absent == {p \in RequiredOf(probe.commandName) : Blank(probe.parameters[p])}
        IN  /\ probe.result.valid = (known /\ absent = {})
            /\ (known /\ ~probe.result.valid) => Range(probe.result.missing) = absent

\* the reply of turn t invokes a command that requires workspaceSlug, supplies
\* every other required parameter and no workspaceSlug
OmitsOnlyWorkspaceSlug(t) ==
    LET reply == turn[t].reply
    IN  /\ reply.marker /\ reply.json
        /\ "workspaceSlug" \in RequiredOf(Trim(reply.commandName))
        /\ Blank(reply.parameters["workspaceSlug"])
        /\ \A p \in RequiredOf(Trim(reply.commandName)) \ {"workspaceSlug"} :
              ~Blank(reply.parameters[p])

\* C3: when the session context has workspaceSlug w1 and the reply invokes a
\* command that requires workspaceSlug without supplying it, the turn returns an
\* action whose workspaceSlug is w1, not a missing-parameter message
C3_AutoFillBeforeValidation ==
    \A t \in Turns :
        (/\ turn[t].pc = "done"
         /\ OmitsOnlyWorkspaceSlug(t)
         /\ turn[t].contextRead.workspaceSlug = JStr("w1")) =>
            /\ turn[t].response.action.present
            /\ turn[t].response.action.parameters["workspaceSlug"] = JStr("w1")

\* the reply of turn t supplies a non-empty value for key that differs from the
\* one the session context held when the command step read it
SuppliesOther(t, key) ==
    /\ turn[t].reply.marker /\ turn[t].reply.json
    /\ Truthy(turn[t].reply.parameters[key])
    /\ turn[t].reply.parameters[key] # turn[t].contextRead[key]

\* C4 as stated: a supplied workspaceSlug or projectSlug that differs from the
\* session context's is the one the returned action carries, for every command
C4_SuppliedValueKept ==
    \A t \in Turns : \A key \in {"workspaceSlug", "projectSlug"} :
        (/\ turn[t].pc = "done"
         /\ turn[t].response.action.present
         /\ SuppliesOther(t, key)) =>
            turn[t].response.action.parameters[key] = turn[t].reply.parameters[key]

\* C4 as the code has it: the returned action carries the supplied workspaceSlug
\* for every command, and the supplied projectSlug for every command but
\* navigateToProject, whose projectSlug is the one validateProjectSlug resolved
\* (the empty string when it found none)
C4_SuppliedValueKeptButResolved ==
    \A t \in Turns :
        (turn[t].pc = "done" /\ turn[t].response.action.present) =>
            /\ SuppliesOther(t, "workspaceSlug") =>
                  turn[t].response.action.parameters["workspaceSlug"]
                     = turn[t].reply.parameters["workspaceSlug"]
            /\ SuppliesOther(t, "projectSlug") =>
                  turn[t].response.action.parameters["projectSlug"]
                     = IF turn[t].response.action.name # "navigateToProject"
                       THEN turn[t].reply.parameters["projectSlug"]
                       ELSE IF turn[t].lookup.status \in {"exact", "fuzzy"}
                       THEN JStr(turn[t].lookup.slug)
                       ELSE JStr("")

\* a turn whose reply supplied a workspace other than the context's came back
\* with the supplied one
C4_Witness ==
    \E t \in Turns :
        /\ turn[t].pc = "done"
        /\ turn[t].response.action.present
        /\ turn[t].contextRead.workspaceSlug = JStr("w1")
        /\ turn[t].reply.parameters["workspaceSlug"] = JStr("w2")
        /\ turn[t].response.action.parameters["workspaceSlug"] = JStr("w2")

\* C5: validateApiUrl returns a URL only for the https scheme, port 443 (written
\* or default), a host of the allow-list or of a vendor pattern, and a host that
\* is no loopback, link-local or private address; http://api.openai.com is
\* rejected
C5_AcceptedUrlIsSafe ==
    (probe.fn = "validateApiUrl" /\ probe.done) =>
        /\ probe.result.ok =>
              /\ ToLowerCase(probe.scheme) = "https"
              /\ probe.port \in {"", ":443"}
              /\ HostAllowed(ToLowerCase(probe.host))
              /\ ~IsInternalHost(StripBrackets(ToLowerCase(probe.host)))
        /\ probe.apiUrl = "http://api.openai.com" => ~probe.result.ok

\* an endpoint with the port written out was accepted
C5_Witness ==
    /\ probe.fn = "validateApiUrl"
    /\ probe.done
    /\ probe.result.ok
    /\ probe.apiUrl = "https://api.openai.com:443/v1"

\* C6: chat() and testConnection() send a request only to an endpoint that
\* passed validateApiUrl (or, in chat(), to the default when none is configured);
\* when the guard rejects, the operation ends with success = false and sends none
C6_GuardBeforeRequest ==
    /\ \A t \in Turns :
          /\ turn[t].requests > 0 =>
                IF turn[t].rawApiUrl = ""
                THEN StartsWith(turn[t].requestUrl, DefaultApiUrl)
                ELSE /\ validateApiUrl(turn[t].rawApiUrl).ok
                     /\ StartsWith(turn[t].requestUrl,
                                   validateApiUrl(turn[t].rawApiUrl).url)
          /\ (/\ turn[t].rawApiUrl # ""
              /\ ~validateApiUrl(turn[t].rawApiUrl).ok) =>
                /\ turn[t].requests = 0
                /\ turn[t].pc = "done"
                /\ ~turn[t].response.success
    /\ conn.requests > 0 =>
          /\ validateApiUrl(conn.apiUrl).ok
          /\ StartsWith(conn.requestUrl, validateApiUrl(conn.apiUrl).url)
    /\ (conn.pc # "idle" /\ ~validateApiUrl(conn.apiUrl).ok) =>
          /\ conn.requests = 0
          /\ conn.pc = "done"
          /\ ~conn.response.success

\* chat() sent its request to an endpoint that passed while testConnection()
\* ended on a rejected one
C6_Witness ==
    /\ \E t \in Turns : turn[t].guard = "passed" /\ turn[t].requests = 1
    /\ conn.pc = "done" /\ conn.guard = "rejected" /\ conn.requests = 0

\* C7: a turn with ai_enabled other than 'true', or without an API key, returns
\* success = false with an error and sends no request; every turn sends at most one
C7_ShortCircuitAndNoRetry ==
    \A t \in Turns :
        /\ turn[t].requests <= 1
        /\ (/\ turn[t].pc = "done"
            /\ \/ turn[t].isEnabled # "true"
               \/ (turn[t].guard # "none" /\ turn[t].apiKey = "")) =>
              /\ ~turn[t].response.success
              /\ turn[t].response.error # ""
              /\ turn[t].requests = 0
        /\ (turn[t].guard # "none" /\ turn[t].apiKey = "") => turn[t].requests = 0

\* a turn that read an empty API key ended without a request
C7_Witness ==
    \E t \in Turns :
        /\ turn[t].pc = "done"
        /\ turn[t].isEnabled = "true"
        /\ turn[t].guard = "default"
        /\ turn[t].apiKey = ""
        /\ turn[t].requests = 0
        /\ ~turn[t].response.success

OuterFailures ==
    {"ai_enabled", "findAllSlugs", "settings", "validateApiUrl", "fetch", "response.json"}

InnerFailures == {"validateProjectSlug", "getIdBySlug"}

\* C8: whichever collaborator fails, the turn ends with a structured response;
\* a failure outside the command step gives success = false, an error that is
\* not empty and no action
C8_FailuresAreCaught ==
    \A t \in Turns :
        /\ turn[t].failed # "" => turn[t].pc = "done"
        /\ turn[t].failed \in OuterFailures =>
              /\ ~turn[t].response.success
              /\ turn[t].response.error # ""
              /\ ~turn[t].response.action.present
        /\ turn[t].failed \in InnerFailures =>
              /\ turn[t].response.success
              /\ turn[t].response.error = ""

\* the settings lookup threw an error without a message and the turn ended with
\* the default error text
C8_Witness ==
    \E t \in Turns :
        /\ turn[t].pc = "done"
        /\ turn[t].failed = "settings"
        /\ turn[t].response.error = "Failed to process chat request"

\* what a context says, apart from its timestamp
View(c) ==
    <<c.workspaceSlug, c.workspaceName, c.projectSlug, c.projectName,
      c.currentWorkSpaceProjectSlug>>

\* C9: when two turns on one session id have both ended, the session context is
\* the one that running them one after the other, in one order or the other,
\* would have produced
C9_Serializable ==
    LET a == turn["t1"]
        b == turn["t2"]
    IN  (/\ a.pc = "done" /\ b.pc = "done"
         /\ started = 2
         /\ a.response.success /\ b.response.success
         /\ EffectiveKey(a.sessionId) = EffectiveKey(b.sessionId)
         /\ a.ctx = b.ctx) =>
            View(heap[a.ctx]) \in
                {View(TurnEffect(TurnEffect(NewContext(0), a), b)),
                 View(TurnEffect(TurnEffect(NewContext(0), b), a))}

\* the stored context of session key k, if any
Stored(k) ==
    IF k \in DOMAIN conversationContexts
    THEN <<TRUE, heap[conversationContexts[k]]>>
    ELSE <<FALSE>>

SessionKeys == {"default", "s1"}

\* the session key of the turn in slot t, at a step that slot takes
StepKey(t) ==
    EffectiveKey(IF turn[t].pc = "idle" THEN turn'[t].sessionId ELSE turn[t].sessionId)

\* the context object a turn works on is stored under no other session's key
OwnObject ==
    \A t \in Turns : \A k \in DOMAIN conversationContexts :
        (turn[t].pc \notin {"idle", "findAllSlugs"} /\ turn[t].ctx # 0
         /\ conversationContexts[k] = turn[t].ctx) =>
            k = EffectiveKey(turn[t].sessionId)

\* a step of a turn, a clearContext or a sweep leaves alone what is stored for
\* every session it does not concern; a sweep deletes only expired entries
Frame ==
    /\ \A t \in Turns : \A k \in SessionKeys :
          (turn'[t] # turn[t] /\ k # StepKey(t)) => Stored(k)' = Stored(k)
    /\ \A a \in SessionKeys : \A k \in SessionKeys \ {a} :
          clearContext(a) => Stored(k)' = Stored(k)
    /\ \A k \in SessionKeys :
          cleanupOldContexts =>
              \/ Stored(k)' = Stored(k)
              \/ (k \in DOMAIN conversationContexts /\ Expired(k))

\* C10: turns, clears and sweep deletions that concern one session id leave the
\* context stored for every other session id unchanged, and a turn reads only
\* the context of its own session
C10_Isolation == []OwnObject /\ [][Frame]_vars

\* both sessions have a context, the one of s1 set by an ended turn, while a
\* turn of the other session has ended too
C10_Witness ==
    /\ {"default", "s1"} \subseteq DOMAIN conversationContexts
    /\ turn["t1"].pc = "done" /\ turn["t1"].sessionId = "s1"
    /\ turn["t2"].pc = "done" /\ turn["t2"].sessionId = ""
    /\ turn["t1"].response.action.present
    /\ turn["t2"].response.action.present
    /\ heap[conversationContexts["s1"]] # heap[conversationContexts["default"]]

\* the context stored under key k was last updated more than the retention
\* period ago
OlderThanRetention(k) ==
    now - heap[conversationContexts[k]].lastUpdated > RETENTION

\* what a sweep leaves: no entry older than the retention period, and every other
\* entry with its fields as they were
SweepStep ==
    cleanupOldContexts =>
        \A k \in DOMAIN conversationContexts :
            IF OlderThanRetention(k)
            THEN k \notin DOMAIN conversationContexts'
            ELSE /\ k \in DOMAIN conversationContexts'
                 /\ Stored(k)' = Stored(k)

\* C11: after cleanupOldContexts runs, every session context last updated more
\* than one hour ago is absent from the store, and every context updated within
\* the hour is still present with unchanged fields
C11_SweepCorrect == [][SweepStep]_vars

\* two contexts were created, the first has been swept after two hours and the
\* second, updated one hour ago, is still stored
C11_Witness ==
    /\ Len(heap) = 2
    /\ now = 2 * RETENTION
    /\ heap[1].lastUpdated = 0
    /\ heap[2].lastUpdated = RETENTION
    /\ \A k \in DOMAIN conversationContexts : conversationContexts[k] = 2
    /\ conversationContexts # EmptyMap

\* what clearContext(a) leaves: no entry for a, a response of success, a store
\* that a second clearContext(a) would not change, and the other entries as
\* they were
ClearStep ==
    \A a \in SessionKeys :
        clearContext(a) =>
            /\ a \notin DOMAIN conversationContexts'
            /\ ClearOutcome(conversationContexts, a).response.success
            /\ ClearOutcome(conversationContexts', a).response.success
            /\ ClearOutcome(conversationContexts', a).store = conversationContexts'
            /\ \A k \in SessionKeys \ {a} : Stored(k)' = Stored(k)

\* C12: clearContext(sessionId) leaves no context entry for sessionId and
\* reports success whether or not an entry existed; applying it twice yields the
\* same store as applying it once, and entries of other session ids are unchanged
C12_ClearIdempotent == [][ClearStep]_vars

\* before any sweep could delete, the context of s1 has been cleared while the
\* one of the default session is still stored
C12_Witness ==
    /\ now = 0
    /\ Len(heap) = 2
    /\ DOMAIN conversationContexts = {"default"}

\* the reply names a command outside the grammar
UnknownCommand(reply) == ~FindCommand(Trim(reply.commandName)).found

\* the required parameters of the reply's command that the reply does not supply
Unsupplied(reply) ==
    {p \in RequiredOf(Trim(reply.commandName)) : Blank(Get(reply.parameters, p))}

\* a step in which turn t receives a parsed command payload and ends
Rejects(t) ==
    /\ turn[t].pc = "fetch"
    /\ turn[t]'.pc = "done"
    /\ turn[t]'.reply.marker
    /\ turn[t]'.reply.json
    /\ UnknownCommand(turn[t]'.reply) \/ Unsupplied(turn[t]'.reply) # {}

RejectStep ==
    \A t \in Turns :
        Rejects(t) =>
            /\ turn[t]'.response.success
            /\ ~turn[t]'.response.action.present
            /\ IF UnknownCommand(turn[t]'.reply)
               THEN Includes(turn[t]'.response.message,
                             "Unknown command: " \o Trim(turn[t]'.reply.commandName))
               ELSE \A p \in Unsupplied(turn[t]'.reply) :
                       Includes(turn[t]'.response.message, p)
            /\ UNCHANGED <<conversationContexts, heap>>

\* C13: a reply whose command is not in the grammar, or whose required parameters
\* are not all supplied, ends the turn with success, no action and a message that
\* reports the unknown command or names the missing parameters, and the command
\* step leaves the store and the session context as they were
C13_RejectedCommand == [][RejectStep]_vars

\* a turn ended on an unknown command, in a session whose context holds a workspace
C13_Witness ==
    \E t \in Turns :
        /\ turn[t].pc = "done"
        /\ turn[t].reply.marker
        /\ turn[t].reply.json
        /\ UnknownCommand(turn[t].reply)
        /\ turn[t].response.success
        /\ ~turn[t].response.action.present
        /\ Truthy(turn[t].contextRead.workspaceSlug)

\* a turn ended on a command whose required parameter was not supplied
C13_WitnessMissing ==
    \E t \in Turns :
        /\ turn[t].pc = "done"
        /\ turn[t].reply.marker
        /\ turn[t].reply.json
        /\ Unsupplied(turn[t].reply) # {}
        /\ ~turn[t].response.action.present

\* a step in which turn t receives a command whose payload does not parse
ParseFails(t) ==
    /\ turn[t].pc = "fetch"
    /\ turn[t]'.pc = "done"
    /\ turn[t]'.reply.marker
    /\ ~turn[t]'.reply.json

UnparsedStep ==
    \A t \in Turns :
        ParseFails(t) =>
            /\ turn[t]'.response = Reply(turn[t]'.reply.aiMessage, NoAction)
            /\ turn[t]'.response.success
            /\ UNCHANGED <<conversationContexts, heap>>

\* C14: a command payload that does not parse, repaired or not, ends the turn with
\* success, the reply text as the message and no action, and the command step
\* leaves the store and the session context as they were
C14_UnparsedCommand == [][UnparsedStep]_vars

\* a turn ended on an unparsable payload, its message the reply text
C14_Witness ==
    \E t \in Turns :
        /\ turn[t].pc = "done"
        /\ turn[t].reply.marker
        /\ ~turn[t].reply.json
        /\ turn[t].response.success
        /\ turn[t].response.message = turn[t].reply.aiMessage
        /\ turn[t].response.message # ""
        /\ ~turn[t].response.action.present

\* a step in which validateProjectSlug answers turn t
LookupAnswers(t) ==
    /\ turn[t].pc = "validateProjectSlug"
    /\ turn[t]'.pc = "done"
    /\ ~turn[t]'.lookup.throws

LookupStep ==
    \A t \in Turns :
        LookupAnswers(t) =>
            LET lookup   == turn[t]'.lookup
                response == turn[t]'.response
                slug     == response.action.parameters["projectSlug"]
            IN  /\ turn[t].commandName = "navigateToProject"
                /\ response.success
                /\ response.action.present
                /\ response.action.name = "navigateToProject"
                /\ lookup.status = "exact" =>
                       /\ slug = JStr(lookup.slug)
                       /\ Includes(response.message, "**" \o lookup.slug \o "**")
                       /\ ~Includes(response.message, "something close")
                /\ lookup.status = "fuzzy" =>
                       /\ slug = JStr(lookup.slug)
                       /\ Includes(response.message, "**" \o lookup.slug \o "**")
                       /\ Includes(response.message, "something close")
                /\ lookup.status = "not_found" =>
                       /\ slug = JStr("")
                       /\ Includes(response.message, "list all projects")

\* the lookup is asked, and has answered, for navigateToProject alone
LookupOnlyForProject ==
    \A t \in Turns :
        /\ turn[t].pc = "validateProjectSlug" => turn[t].commandName = "navigateToProject"
        /\ turn[t].lookup # NoLookup => turn[t].commandName = "navigateToProject"
        /\ (turn[t].pc = "done" /\ turn[t].commandName # "navigateToProject")
              => turn[t].lookup = NoLookup

\* C15: for navigateToProject an exact or fuzzy answer of the lookup puts the
\* lookup's slug into the returned action, with a message of its own for each of the
\* two; not_found empties the slug and the message points to listing the projects;
\* no other command asks the lookup
C15_SlugResolved == []LookupOnlyForProject /\ [][LookupStep]_vars

\* the lookup answered fuzzy and the returned action carries its slug, not the
\* one the model sent
C15_Witness ==
    \E t \in Turns :
        /\ turn[t].pc = "done"
        /\ turn[t].lookup.status = "fuzzy"
        /\ turn[t].reply.parameters["projectSlug"] = JStr("marketng")
        /\ turn[t].response.action.present
        /\ turn[t].response.action.parameters["projectSlug"] = JStr("marketing")

\* C16: each endpoint of the setup instructions (OpenRouter, OpenAI, Anthropic, a
\* local Ollama server) passes validateApiUrl, and chat() and testConnection()
\* send their request to it
C16_ReadmeEndpointsUsable ==
    /\ \A t \in Turns :
          (/\ turn[t].rawApiUrl \in ReadmeEndpoints
           /\ turn[t].guard # "none"
           /\ turn[t].apiKey # "") =>
              /\ turn[t].guard = "passed"
              /\ turn[t].requests = 1
              /\ StartsWith(turn[t].requestUrl, turn[t].rawApiUrl)
    /\ (conn.pc # "idle" /\ conn.apiUrl \in ReadmeEndpoints) =>
          /\ conn.guard = "passed"
          /\ conn.requests = 1
          /\ StartsWith(conn.requestUrl, conn.apiUrl)

\* the returned action of turn t carries a value for key that the reply did not
Filled(t, key) ==
    /\ turn[t].pc = "done"
    /\ turn[t].response.action.present
    /\ turn[t].lookup = NoLookup
    /\ turn[t].response.action.parameters[key] # turn[t].reply.parameters[key]

\* the name concerns a task or a project
TaskOrProject(commandName) ==
    Includes(commandName, "Task") \/ Includes(commandName, "Project")

C17_WitnessOtherWorkspace ==
    \E t \in Turns :
        /\ turn[t].pc = "done"
        /\ turn[t].response.action.present
        /\ turn[t].response.action.name = "listProjects"
        /\ Truthy(turn[t].contextRead.projectSlug)
        /\ turn[t].reply.parameters["workspaceSlug"] # turn[t].contextRead.workspaceSlug
        /\ ~Truthy(turn[t].response.action.parameters["projectSlug"])

\* the grammar file lacks its command list, or an entry lacks its name or parameters
Corrupt(grammar) ==
    \/ ~grammar.hasCommands
    \/ \E i \in DOMAIN grammar.commands :
          ~grammar.commands[i].hasName \/ ~grammar.commands[i].hasParams

\* C18: with a corrupt grammar the service is never constructed, so no chat request
\* is processed and none fails because of the grammar
C18_CorruptGrammarStopsStartup ==
    Corrupt(probe.grammar) =>
        /\ probe.pc \in {"boot", "failed"}
        /\ started = 0
        /\ probe.failed # "generateSystemPrompt"

\* the context names no project
NoProject(context) ==
    context.projectSlug = Undefined /\ context.projectName = Undefined

\* a workspace pattern takes a name from the message
WorkspaceMentioned(message) ==
    \E p \in DOMAIN workspacePatterns : WorkspaceHitOf(p, message).hit

\* a project pattern takes a name from the message
ProjectNamed(message) ==
    \E p \in DOMAIN projectPatterns : ProjectHitOf(p, message).hit

\* turn t ends with a resolved navigateToWorkspace or createWorkspace
CommandSwitch(t) ==
    /\ turn[t].pc \in {"fetch", "getIdBySlug"}
    /\ turn[t]'.pc = "done"
    /\ turn[t]'.failed = ""
    /\ turn[t]'.response.action.present
    /\ \/ /\ turn[t]'.response.action.name = "navigateToWorkspace"
          /\ Truthy(turn[t]'.response.action.parameters["workspaceSlug"])
       \/ /\ turn[t]'.response.action.name = "createWorkspace"
          /\ Truthy(turn[t]'.response.action.parameters["name"])

\* the heuristics run on a message of turn t that mentions a workspace and names
\* no project
MentionSwitch(t) ==
    /\ turn[t].pc = "settings"
    /\ turn[t]'.pc = "fetch"
    /\ WorkspaceMentioned(turn[t].message)
    /\ ~ProjectNamed(turn[t].message)

SwitchStep ==
    \A t \in Turns :
        (CommandSwitch(t) \/ MentionSwitch(t)) => NoProject(heap[turn[t].ctx]')

\* C19: after a resolved navigateToWorkspace with a workspaceSlug, after a
\* createWorkspace with a name, and after the heuristics took a workspace from a
\* message that names no project, the session context has neither projectSlug nor
\* projectName
C19_SwitchClearsProject == [][SwitchStep]_vars

\* C19 with the code's test in place of "names no project": the message does not
\* contain the letters "project"
SwitchStepByWord ==
    \A t \in Turns :
        (\/ CommandSwitch(t)
         \/ /\ MentionSwitch(t)
            /\ ~Includes(ToLowerCase(turn[t].message), "project"))
           => NoProject(heap[turn[t].ctx]')

SwitchClearsProjectByWord == [][SwitchStepByWord]_vars

\* C20: in every stored session context a projectSlug or projectName is present
\* only if a workspaceSlug is
C20_ProjectPairedWithWorkspace ==
    \A k \in DOMAIN conversationContexts :
        LET context == heap[conversationContexts[k]]
        IN  (context.projectSlug # Undefined \/ context.projectName # Undefined)
               => context.workspaceSlug # Undefined

\* C21: after a navigateToProject or createProject whose action carries both a
\* projectSlug and a name, the context's projectSlug is the action's projectSlug
C21_ExplicitSlugPreferred ==
    \A t \in Turns :
        (/\ turn[t].pc = "done"
         /\ turn[t].failed = ""
         /\ turn[t].response.action.present
         /\ turn[t].response.action.name \in {"navigateToProject", "createProject"}
         /\ Truthy(turn[t].response.action.parameters["projectSlug"])
         /\ Truthy(turn[t].response.action.parameters["name"])) =>
            heap[turn[t].ctx].projectSlug
               = turn[t].response.action.parameters["projectSlug"]

\* the lookup of turn t answers not_found
NotFoundStep(t) ==
    /\ turn[t].pc = "validateProjectSlug"
    /\ turn[t]'.pc = "done"
    /\ ~turn[t]'.lookup.throws
    /\ turn[t]'.lookup.status = "not_found"

\* turn t ends because the model call or the slug lookup failed
CallFails(t) ==
    /\ turn[t].pc \in {"fetch", "validateProjectSlug"}
    /\ turn[t]'.pc = "done"
    /\ \/ turn[t]'.failed \in {"fetch", "response.json", "validateProjectSlug"}
       \/ ~turn[t]'.response.success

\* a failed call leaves the context as the heuristics left it
FailedCallStep ==
    \A t \in Turns : CallFails(t) => UNCHANGED <<conversationContexts, heap>>

UnresolvedStep ==
    \A t \in Turns :
        /\ NotFoundStep(t) =>
              LET before == heap[turn[t].ctx]
                  after  == heap[turn[t].ctx]'
              IN  /\ after.workspaceSlug = before.workspaceSlug
                  /\ after.projectSlug = before.projectSlug
                  /\ after.projectName = before.projectName
        /\ CallFails(t) => UNCHANGED <<conversationContexts, heap>>

\* C22: a navigateToProject turn whose lookup answers not_found leaves the
\* context's workspaceSlug, projectSlug and projectName as they were before the
\* command step, and a turn that fails during the model call or the lookup leaves
\* the context as it was after the heuristics
C22_OnlyResolvedCommandsWrite == [][UnresolvedStep]_vars

FailedCallKeepsContext == [][FailedCallStep]_vars

\* C23: a well-formed object payload with its last N closing braces removed is
\* repaired to a payload that parses to the same object, whatever its strings hold
C23_RepairRoundTrip ==
    (probe.fn = "repair" /\ probe.done) =>
        /\ probe.result.ok
        /\ probe.result.value = probe.original

\* no string of the value holds a brace
RECURSIVE PlainStrings(_)
PlainStrings(value) ==
    IF value.kind = "string" THEN value.text \notin {"{", "}", "a}", "{}"}
    ELSE \A k \in DOMAIN value.members : PlainStrings(value.members[k].value)

\* C23 for payloads whose strings hold no brace
RepairRoundTripPlain ==
    (/\ probe.fn = "repair"
     /\ probe.done
     /\ PlainStrings(probe.original)) =>
        /\ probe.result.ok
        /\ probe.result.value = probe.original

\* C24: the command patterns are applied to a reply cut to a fixed length, and the
\* context patterns to at most the first 10000 characters of the message
C24_BoundedScans ==
    (probe.fn = "scan" /\ probe.done) =>
        /\ probe.result.commandText <= MAX_MESSAGE_LENGTH
        /\ probe.result.safeMessage <= MAX_MESSAGE_LENGTH

\* the half of C24 about the user message
MessageScanBounded ==
    (probe.fn = "scan" /\ probe.done) =>
        /\ probe.result.safeMessage <= MAX_MESSAGE_LENGTH
        /\ probe.result.safeMessage <= Len(probe.message)

\* a marker is found wherever it stands in the reply
MarkerFoundAnywhere ==
    (probe.fn = "scan" /\ probe.done) =>
        (probe.result.commandMatch <=> Includes(probe.aiMessage, "[COMMAND:"))

\* a value that is one of the skip words
StopWord(v) == v.kind = "string" /\ ToLowerCase(v.text) \in Range(skipWords)

\* no skip word becomes the workspace name
WorkspaceNeverStopWord ==
    (probe.fn = "extract" /\ probe.done) =>
        ~StopWord(probe.result.context.workspaceName)

\* no skip word becomes the project name or slug
ProjectNeverStopWord ==
    (probe.fn = "extract" /\ probe.done) =>
        /\ ~StopWord(probe.result.context.projectName)
        /\ ~StopWord(probe.result.context.projectSlug)

\* "go with <name> project": a name that is no skip word becomes the project name
NamedProjectAccepted ==
    (/\ probe.fn = "extract"
     /\ probe.done
     /\ probe.verb = "go with"
     /\ probe.tail = " project"
     /\ ~StopWord(JStr(probe.name))) =>
        probe.result.context.projectName = JStr(probe.name)

\* C25: extraction stores no skip word as a workspace or project name, and rejects
\* no name that is not a skip word
C25_StoplistExact ==
    /\ WorkspaceNeverStopWord
    /\ ProjectNeverStopWord
    /\ NamedProjectAccepted

\* the name the earliest matching workspace pattern yields, Undefined when none matches
FirstWorkspaceName(safeMessage) ==
    LET Of(hits) == IF hits = {} THEN Undefined
                    ELSE JStr(WorkspaceHitOf(MinOf(hits), safeMessage).name)
    IN  Of({p \in DOMAIN workspacePatterns : WorkspaceHitOf(p, safeMessage).hit})

\* the name the earliest matching project pattern yields, Undefined when none matches
FirstProjectName(safeMessage) ==
    LET Of(hits) == IF hits = {} THEN Undefined
                    ELSE JStr(ProjectHitOf(MinOf(hits), safeMessage).name)
    IN  Of({p \in DOMAIN projectPatterns : ProjectHitOf(p, safeMessage).hit})

\* the workspace name is the one of the earliest matching pattern
FirstWorkspacePatternWins ==
    (probe.fn = "extract" /\ probe.done) =>
        probe.result.context.workspaceName = FirstWorkspaceName(probe.message)

\* the project name is the one of the earliest matching pattern
FirstProjectPatternWins ==
    (probe.fn = "extract" /\ probe.done) =>
        probe.result.context.projectName = FirstProjectName(probe.message)

\* C26: of the patterns a message matches, the earliest in the list gives the
\* stored name, for workspaces and for projects
C26_FirstPatternWins ==
    /\ FirstWorkspacePatternWins
    /\ FirstProjectPatternWins

\* the stored name is the one of the last matching pattern
LastPatternWins ==
    (probe.fn = "extract" /\ probe.done) =>
        LET ws == {p \in DOMAIN workspacePatterns : WorkspaceHitOf(p, probe.message).hit}
            ps == {p \in DOMAIN projectPatterns : ProjectHitOf(p, probe.message).hit}
        IN  /\ ws # {} => probe.result.context.workspaceName
                             = JStr(WorkspaceHitOf(MaxOf(ws), probe.message).name)
            /\ ps # {} => probe.result.context.projectName
                             = JStr(ProjectHitOf(MaxOf(ps), probe.message).name)

\* a turn's session lookup (lines 312-318) leaves the session's context with
\* lastUpdated at the time of the lookup
LookupRefreshStep ==
    \A t \in Turns :
        (turn[t].pc = "findAllSlugs" /\ turn[t]'.pc = "settings") =>
            heap'[turn[t]'.ctx].lastUpdated = now

\* C27: every chat turn that reaches the session lookup refreshes lastUpdated, so
\* that a sweep deletes only sessions without a turn within the retention period
C27_TurnRefreshesSession == [][LookupRefreshStep]_vars

\* a turn that ends without a command and without a heuristic match leaves
\* lastUpdated as the lookup found it
QuietTurnStep ==
    \A t \in Turns :
        (/\ turn[t].pc \notin {"idle", "findAllSlugs", "done"}
         /\ turn[t]'.pc = "done"
         /\ ~turn[t]'.response.action.present
         /\ ~extractContextFromMessage(turn[t].message, heap[turn[t].ctx],
                                       now).contextUpdated) =>
            heap'[turn[t].ctx].lastUpdated = heap[turn[t].ctx].lastUpdated

QuietTurnKeepsTimestamp == [][QuietTurnStep]_vars

\* a session whose turn has just reached the lookup is not one the sweep deletes
LookedUpNotExpiredStep ==
    \A t \in Turns :
        (turn[t].pc = "findAllSlugs" /\ turn[t]'.pc = "settings") =>
            heap'[turn[t]'.ctx].lastUpdated >= now - RETENTION

LookedUpNotExpired == [][LookedUpNotExpiredStep]_vars

\* the turns of the two slots are the first turns of two different users
TwoUsers ==
    /\ started = 2
    /\ \A t \in Turns : turn[t].pc # "idle"
    /\ turn["t1"].userId # turn["t2"].userId

\* two users' turns do not work on one context object
UsersShareNoObject ==
    (TwoUsers /\ \A t \in Turns : turn[t].ctx # 0) => turn["t1"].ctx # turn["t2"].ctx

\* C28: the prompt of a user's turn depends on no context another user's turn
\* wrote, also when both users send the same session id or none
C28_NoLeakBetweenUsers ==
    \A t \in Turns :
        (TwoUsers /\ turn[t].prompt # "") =>
            turn[t].prompt = generateSystemPrompt(NewContext(0), turn[t].slugs)

\* C28 for two users on different session ids
NoLeakAcrossSessionIds ==
    \A t \in Turns :
        (/\ TwoUsers
         /\ turn[t].prompt # ""
         /\ SessionKey(turn["t1"].sessionId) # SessionKey(turn["t2"].sessionId)) =>
            turn[t].prompt = generateSystemPrompt(NewContext(0), turn[t].slugs)

ContextFields == {"workspaceSlug", "workspaceName", "projectSlug", "projectName"}

\* a step that stores a context for a session that has none stores either a new
\* object or one that keeps no workspace or project field from before the step
RestoreStep ==
    \A k \in SessionKeys :
        (k \notin DOMAIN conversationContexts /\ k \in DOMAIN conversationContexts') =>
            \/ conversationContexts'[k] > Len(heap)
            \/ \A f \in ContextFields :
                  \/ heap[conversationContexts'[k]][f] = Undefined
                  \/ heap'[conversationContexts'[k]][f] # heap[conversationContexts'[k]][f]

\* C29: after clearContext(sessionId) nothing written to the session's context
\* before the clear is stored for the session again, whatever turns were running
C29_ClearIsFinal == [][RestoreStep]_vars

\* a step that stores a context for a session that has none stores a new object
RestoreNewObjectStep ==
    \A k \in SessionKeys :
        (k \notin DOMAIN conversationContexts /\ k \in DOMAIN conversationContexts') =>
            conversationContexts'[k] > Len(heap)

ClearedObjectNotStored == [][RestoreNewObjectStep]_vars

\* without a turn in flight at the clear, the next turn starts from a new context
ClearedThenNew ==
    \A t \in Turns :
        (/\ turn[t].pc = "findAllSlugs"
         /\ turn[t]'.pc = "settings"
         /\ SessionKey(turn[t].sessionId) \notin DOMAIN conversationContexts) =>
            /\ turn[t]'.ctx = Len(heap) + 1
            /\ heap'[turn[t]'.ctx] = NewContext(now)

ClearedSessionStartsNew == [][ClearedThenNew]_vars

\* the probe is an https URL on port 443, written or default
HttpsOn443 ==
    /\ probe.fn = "validateApiUrl"
    /\ probe.done
    /\ ToLowerCase(probe.scheme) = "https"
    /\ probe.port \in {"", ":443"}

Vendors == {"openrouter", "openai", "anthropic", "google"}

\* an accepted URL is one of a vendor the adapter knows
AcceptedIsVendor == (HttpsOn443 /\ probe.result.ok) => probe.provider \in Vendors

\* a URL of a vendor the adapter knows is accepted
VendorIsAccepted == (HttpsOn443 /\ probe.provider \in Vendors) => probe.result.ok

\* C30: on https and port 443 the guard accepts a URL exactly when the adapter
\* classifies it as openrouter, openai, anthropic or google
C30_GuardMatchesAdapter ==
    HttpsOn443 => (probe.result.ok <=> probe.provider \in Vendors)

\* no accepted URL gets the google request shape
GoogleShapeNeverAccepted ==
    (probe.fn = "validateApiUrl" /\ probe.done /\ probe.result.ok) =>
        probe.provider # "google"

====
